---- MODULE Spec2Model ----
(***************************************************************************)
(* Model of the product feed plugin: ProductFeedService.buildMappedFeedData *)
(* (src/src/modules/product-feed/service.ts) and the GET handlers of the   *)
(* v1 XML and v2 JSON feed routes that delegate to it.                      *)
(*                                                                         *)
(* JavaScript strings are sequences of one-character strings, so that      *)
(* includes, toLowerCase, replace and encodeURIComponent are computed.      *)
(* JavaScript values are tagged records (Undefined, Null, Str, Num).        *)
(* A JavaScript object is the sequence of its [k, v] entries in insertion   *)
(* order.                                                                  *)
(***************************************************************************)
EXTENDS Naturals, Integers, Sequences, FiniteSets, TLC

VARIABLES
    regions,               \* what regionsModule.listRegions() resolves to
    catalog,               \* the products of the store, in query.graph order
    entry,                 \* who starts the build: "direct", "v1xml", "v2json"
    request,               \* req.query of the route handlers
    args,                  \* the argument object of buildMappedFeedData
    pc,                    \* position of the control flow
    selectedRegion,        \* selectedRegionId / selectedCurrencyCode
    plan,                  \* totalProducts, effectiveBatchSize, batches, startBatch, endBatch
    batchIndex,            \* the loop variable
    productBatch,          \* the products of the batch in flight
    availabilityPromises,  \* the availability queries of the batch in flight
    availabilityMap,       \* variant id -> { availability } of the batch in flight
    tasks,                 \* the per-variant mapping promises of the batch in flight
    mappedVariants,        \* the accumulator
    mappedFrom,            \* history: the variant id each accumulated item was mapped from
    returned,              \* the outcome of the promise buildMappedFeedData returned
    response,              \* the HTTP response of the route handler
    calls,                 \* history: the collaborator calls, in issue order
    failedAt,              \* history: Len(calls) when the build rejected
    probe,                 \* the pure function applied and its input and output
    builds                 \* two calls in progress on one instance: options_ and each call's locals

vars == << regions, catalog, entry, request, args, pc, selectedRegion, plan,
           batchIndex, productBatch, availabilityPromises, availabilityMap, tasks,
           mappedVariants, mappedFrom, returned, response, calls, failedAt, probe,
           builds >>

buildVars == << regions, catalog, entry, request, args, pc, selectedRegion, plan,
                batchIndex, productBatch, availabilityPromises, availabilityMap, tasks,
                mappedVariants, mappedFrom, returned, response, calls, failedAt, builds >>

\* the state of a single call and of the probe
oneBuildVars == << regions, catalog, entry, request, args, pc, selectedRegion, plan,
                   batchIndex, productBatch, availabilityPromises, availabilityMap, tasks,
                   mappedVariants, mappedFrom, returned, response, calls, failedAt, probe >>

---------------------------------------------------------------------------
(* Bounds of the model *)

MaxLabelLen == 3
MaxOptions == 2
MaxProducts == 3
MaxImages == 4
MaxQueries == 3

---------------------------------------------------------------------------
(* JavaScript values *)

Undefined == [t |-> "undefined"]
Null == [t |-> "null"]
Str(s) == [t |-> "string", s |-> s]
Num(n) == [t |-> "number", n |-> n]

Arr(items) == [t |-> "array", items |-> items]

IsStr(v) == v.t = "string"
IsNum(v) == v.t = "number"

\* JavaScript truthiness of a value
Truthy(v) ==
    CASE v.t = "undefined" -> FALSE
      [] v.t = "null" -> FALSE
      [] v.t = "string" -> v.s # << >>
      [] v.t = "number" -> v.n # 0
      [] OTHER -> TRUE

\* a || b
OrElse(a, b) == IF Truthy(a) THEN a ELSE b

---------------------------------------------------------------------------
(* JavaScript strings *)

UpperChars == << "A", "B", "C", "D", "E", "F", "G", "H", "I", "J", "K", "L", "M",
                 "N", "O", "P", "Q", "R", "S", "T", "U", "V", "W", "X", "Y", "Z",
                 "Æ", "Ø", "Å" >>
LowerChars == << "a", "b", "c", "d", "e", "f", "g", "h", "i", "j", "k", "l", "m",
                 "n", "o", "p", "q", "r", "s", "t", "u", "v", "w", "x", "y", "z",
                 "æ", "ø", "å" >>

AsciiLower == { LowerChars[i] : i \in 1..26 }
AsciiUpper == { UpperChars[i] : i \in 1..26 }
Digits == { "0", "1", "2", "3", "4", "5", "6", "7", "8", "9" }

toLowerCaseChar(c) ==
    IF \E i \in 1..Len(UpperChars) : UpperChars[i] = c
    THEN LowerChars[CHOOSE i \in 1..Len(UpperChars) : UpperChars[i] = c]
    ELSE c

toUpperCaseChar(c) ==
    IF \E i \in 1..Len(LowerChars) : LowerChars[i] = c
    THEN UpperChars[CHOOSE i \in 1..Len(LowerChars) : LowerChars[i] = c]
    ELSE c

\* String.prototype.toLowerCase / toUpperCase
toLowerCase(s) == [i \in 1..Len(s) |-> toLowerCaseChar(s[i])]
toUpperCase(s) == [i \in 1..Len(s) |-> toUpperCaseChar(s[i])]

\* the string that replaces each character, concatenated
RECURSIVE ReplaceChars(_, _)
ReplaceChars(f, s) ==
    IF s = << >> THEN << >> ELSE f[Head(s)] \o ReplaceChars(f, Tail(s))

\* String.prototype.includes
includes(s, sub) ==
    \E i \in 0..(Len(s) - Len(sub)) :
        \A j \in 1..Len(sub) : s[i + j] = sub[j]

\* Array.prototype.join over strings
RECURSIVE join(_, _)
join(parts, sep) ==
    IF parts = << >> THEN << >>
    ELSE IF Len(parts) = 1 THEN parts[1]
    ELSE parts[1] \o sep \o join(Tail(parts), sep)

---------------------------------------------------------------------------
(* sanitizeXmlName *)

\* the characters a label is drawn from
LabelChars == { "a", "Z", "Æ", "ø", "å", "7", "_", " ", "-" }

RECURSIVE SeqsUpTo(_, _)
SeqsUpTo(S, n) ==
    IF n = 0 THEN { << >> }
    ELSE LET shorter == SeqsUpTo(S, n - 1)
         IN shorter \cup { Append(s, c) : s \in shorter, c \in S }

Labels == SeqsUpTo(LabelChars, MaxLabelLen)

\* .replace(/æ/g, "ae").replace(/ø/g, "oe").replace(/å/g, "aa")
DanishChar(c) ==
    CASE c = "æ" -> << "a", "e" >>
      [] c = "ø" -> << "o", "e" >>
      [] c = "å" -> << "a", "a" >>
      [] OTHER -> << c >>

\* .replace(/[^a-z0-9_]/g, "_")
NameChar(c) == IF c \in AsciiLower \cup Digits \cup { "_" } THEN << c >> ELSE << "_" >>

CharsOf(s) == { s[i] : i \in 1..Len(s) }

\* /^[a-z_]/.test(s)
StartsWithNameStart(s) == s # << >> /\ s[1] \in AsciiLower \cup { "_" }

optPrefix == << "o", "p", "t", "_" >>

\* the bug: the opt_ prefix is never added
sanitizeXmlName_NoPrefix(name) ==
    LET lowered == toLowerCase(name)
        danish == ReplaceChars([c \in CharsOf(lowered) |-> DanishChar(c)], lowered)
    IN ReplaceChars([c \in CharsOf(danish) |-> NameChar(c)], danish)

sanitizeXmlName(name) ==
    LET lowered == toLowerCase(name)
        danish == ReplaceChars([c \in CharsOf(lowered) |-> DanishChar(c)], lowered)
        sanitized == ReplaceChars([c \in CharsOf(danish) |-> NameChar(c)], danish)
    IN IF StartsWithNameStart(sanitized) THEN sanitized ELSE optPrefix \o sanitized

---------------------------------------------------------------------------
(* JavaScript objects: the entries [k, v] in property order *)

\* a canonical array index ("0", "7", "12"): such keys are ordered first, ascending
IsIndexKey(k) ==
    /\ k # << >>
    /\ \A i \in 1..Len(k) : k[i] \in Digits
    /\ (Len(k) > 1 => k[1] # "0")

DigitValue(c) == CHOOSE n \in 0..9 : << "0", "1", "2", "3", "4", "5", "6", "7", "8", "9" >>[n + 1] = c

RECURSIVE IndexValue(_)
IndexValue(k) ==
    IF k = << >> THEN 0
    ELSE IndexValue(SubSeq(k, 1, Len(k) - 1)) * 10 + DigitValue(k[Len(k)])

HasKey(obj, k) == \E i \in 1..Len(obj) : obj[i].k = k

\* obj[k], undefined when absent
Get(obj, k) ==
    IF HasKey(obj, k) THEN obj[CHOOSE i \in 1..Len(obj) : obj[i].k = k].v ELSE Undefined

\* where a new key goes: index keys ascending first, then the others as inserted
InsertAt(obj, k) ==
    IF IsIndexKey(k)
    THEN Cardinality({ i \in 1..Len(obj) :
                         IsIndexKey(obj[i].k) /\ IndexValue(obj[i].k) < IndexValue(k) }) + 1
    ELSE Len(obj) + 1

\* obj[k] = v
Set(obj, k, v) ==
    IF HasKey(obj, k)
    THEN [i \in 1..Len(obj) |-> IF obj[i].k = k THEN [k |-> k, v |-> v] ELSE obj[i]]
    ELSE LET at == InsertAt(obj, k)
         IN SubSeq(obj, 1, at - 1) \o << [k |-> k, v |-> v] >> \o SubSeq(obj, at, Len(obj))

\* delete obj[k]
Delete(obj, k) == SelectSeq(obj, LAMBDA e : e.k # k)

\* { ...obj, ...more } and Object.fromEntries(entries)
RECURSIVE Assign(_, _)
Assign(obj, more) ==
    IF more = << >> THEN obj
    ELSE Assign(Set(obj, more[1].k, more[1].v), Tail(more))

Keys(obj) == { obj[i].k : i \in 1..Len(obj) }

---------------------------------------------------------------------------
(* Formatting *)

RECURSIVE Decimal(_)
Decimal(n) ==
    IF n < 10 THEN << << "0", "1", "2", "3", "4", "5", "6", "7", "8", "9" >>[n + 1] >>
    ELSE Decimal(n \div 10) \o Decimal(n % 10)

\* `${v}` of a template literal
TemplateString(v) ==
    CASE v.t = "undefined" -> << "u", "n", "d", "e", "f", "i", "n", "e", "d" >>
      [] v.t = "null" -> << "n", "u", "l", "l" >>
      [] v.t = "string" -> v.s
      [] v.t = "number" -> Decimal(v.n)

\* characters encodeURIComponent leaves alone
Unreserved == AsciiLower \cup AsciiUpper \cup Digits \cup { "-", "_", ".", "!", "~", "*", "'", "(", ")" }

\* the UTF-8 percent encoding of the other characters of the model
PercentEncoded(c) ==
    CASE c = " " -> << "%", "2", "0" >>
      [] c = ":" -> << "%", "3", "A" >>
      [] c = "&" -> << "%", "2", "6" >>
      [] c = "=" -> << "%", "3", "D" >>
      [] c = "/" -> << "%", "2", "F" >>
      [] c = "?" -> << "%", "3", "F" >>
      [] c = "æ" -> << "%", "C", "3", "%", "A", "6" >>
      [] c = "ø" -> << "%", "C", "3", "%", "B", "8" >>
      [] c = "å" -> << "%", "C", "3", "%", "A", "5" >>
      [] c = "Æ" -> << "%", "C", "3", "%", "8", "6" >>
      [] c = "Ø" -> << "%", "C", "3", "%", "9", "8" >>
      [] c = "Å" -> << "%", "C", "3", "%", "8", "5" >>

encodeURIComponent(s) ==
    ReplaceChars([c \in CharsOf(s) |-> IF c \in Unreserved THEN << c >> ELSE PercentEncoded(c)], s)

---------------------------------------------------------------------------
(* String literals of the service *)

kId == << "i", "d" >>
kItemGroupId == << "i", "t", "e", "m", "_", "g", "r", "o", "u", "p", "_", "i", "d" >>
kItemgroupId == << "i", "t", "e", "m", "g", "r", "o", "u", "p", "_", "i", "d" >>
kTitle == << "t", "i", "t", "l", "e" >>
kDescription == << "d", "e", "s", "c", "r", "i", "p", "t", "i", "o", "n" >>
kLink == << "l", "i", "n", "k" >>
kImageLink == << "i", "m", "a", "g", "e", "_", "l", "i", "n", "k" >>
kAdditionalImage1 == << "a", "d", "d", "i", "t", "i", "o", "n", "a", "l", "_", "i", "m", "a", "g", "e", "_", "1" >>
kAdditionalImage2 == << "a", "d", "d", "i", "t", "i", "o", "n", "a", "l", "_", "i", "m", "a", "g", "e", "_", "2" >>
kBrand == << "b", "r", "a", "n", "d" >>
kCondition == << "c", "o", "n", "d", "i", "t", "i", "o", "n" >>
kAvailability == << "a", "v", "a", "i", "l", "a", "b", "i", "l", "i", "t", "y" >>
kPrice == << "p", "r", "i", "c", "e" >>
kSalePrice == << "s", "a", "l", "e", "_", "p", "r", "i", "c", "e" >>
kMpn == << "m", "p", "n" >>
kProductType == << "p", "r", "o", "d", "u", "c", "t", "_", "t", "y", "p", "e" >>
kMaterial == << "m", "a", "t", "e", "r", "i", "a", "l" >>

sDefault == << "D", "e", "f", "a", "u", "l", "t" >>
sdefault == << "d", "e", "f", "a", "u", "l", "t" >>
sNew == << "n", "e", "w" >>
sInStock == << "i", "n", " ", "s", "t", "o", "c", "k" >>
sOutOfStock == << "o", "u", "t", " ", "o", "f", " ", "s", "t", "o", "c", "k" >>
gPrefix == << "g", ":" >>
exampleUrl == << "h", "t", "t", "p", "s", ":", "/", "/", "e", "x", "a", "m", "p", "l", "e", ".", "c", "o", "m" >>

---------------------------------------------------------------------------
(* handleVariantOptions *)

\* the bug: only the capitalised marker is recognised
IsDefaultValue_CapitalOnly(value) == includes(value, sDefault)

\* optionValue.value.includes("Default") || optionValue.value.includes("default")
IsDefaultValue(value) == includes(value, sDefault) \/ includes(value, sdefault)

\* the key an option title gets in the mapping
OptionKey(title, mode, GoogleMerchant) ==
    IF mode = "xml"
    THEN LET key == sanitizeXmlName(title)
         IN IF GoogleMerchant THEN gPrefix \o key ELSE key
    ELSE toLowerCase(title)

\* one round of options.forEach: an optionValue is [title, value], title being
\* optionValue.option?.title. Reading .includes of a value that is no string throws.
RECURSIVE OptionsLoop(_, _, _, _)
OptionsLoop(options, result, mode, GoogleMerchant) ==
    IF options = << >> THEN [threw |-> FALSE, obj |-> result]
    ELSE LET optionValue == Head(options)
         IN IF ~IsStr(optionValue.value) THEN [threw |-> TRUE, obj |-> result]
            ELSE IF IsDefaultValue(optionValue.value.s)
            THEN OptionsLoop(Tail(options), result, mode, GoogleMerchant)
            ELSE IF Truthy(optionValue.title) /\ Truthy(optionValue.value)
            THEN OptionsLoop(Tail(options),
                             Set(result, OptionKey(optionValue.title.s, mode, GoogleMerchant),
                                 optionValue.value),
                             mode, GoogleMerchant)
            ELSE OptionsLoop(Tail(options), result, mode, GoogleMerchant)

handleVariantOptions(options, mode, GoogleMerchant) ==
    OptionsLoop(options, << >>, mode, GoogleMerchant)

---------------------------------------------------------------------------
(* The per-variant mapping *)

\* variant.calculated_price?.original_amount and ?.calculated_amount
OriginalAmount(variant) ==
    IF variant.calculated_price.t = "object"
    THEN variant.calculated_price.original_amount ELSE Undefined

CalculatedAmount(variant) ==
    IF variant.calculated_price.t = "object"
    THEN variant.calculated_price.calculated_amount ELSE Undefined

\* .filter(variant => variant.calculated_price?.original_amount !== undefined)
IsPriced(variant) == OriginalAmount(variant) # Undefined

PricedVariants(product) == SelectSeq(product.variants, IsPriced)

\* `${amount} ${selectedCurrencyCode.toUpperCase()}`
PriceString(amount, currencyCode) ==
    TemplateString(amount) \o << " " >> \o toUpperCase(currencyCode)

\* Object.entries(variantOptions).map(...).join("&")
LinkableOptions(variantOptions) ==
    join([i \in 1..Len(variantOptions) |->
             encodeURIComponent(variantOptions[i].k) \o << "=" >>
                 \o encodeURIComponent(variantOptions[i].v.s)],
         << "&" >>)

\* product?.images?.[0..2]?.url
RawImages(product) ==
    [i \in 1..3 |-> IF i <= Len(product.images) THEN product.images[i] ELSE Undefined]

RECURSIVE ImagesLoop(_, _, _)
ImagesLoop(rawImages, thumbnail, additionalImages) ==
    IF rawImages = << >> THEN additionalImages
    ELSE LET url == Head(rawImages)
         IN IF ~Truthy(url) \/ url = thumbnail
               \/ (\E i \in 1..Len(additionalImages) : additionalImages[i] = url)
            THEN ImagesLoop(Tail(rawImages), thumbnail, additionalImages)
            ELSE ImagesLoop(Tail(rawImages), thumbnail, Append(additionalImages, url))

AdditionalImages(product) == ImagesLoop(RawImages(product), product.thumbnail, << >>)

\* additionalImages[i]
At(list, i) == IF i <= Len(list) THEN list[i] ELSE Undefined

\* const store_url = options.link || "https://example.com"
StoreUrl(options) == OrElse(options.link, Str(exampleUrl)).s

\* const brand = options?.brand || undefined
Brand(options) == OrElse(options.brand, Undefined)

Link(options, product, variantOptions) ==
    Str(StoreUrl(options) \o << "/" >> \o TemplateString(product.handle) \o << "?" >>
        \o LinkableOptions(variantOptions))

\* the object literal of XML mode, before the hook
XmlItem(options, product, variant, availability, variantOptions, currencyCode, GoogleMerchant) ==
    LET g(k) == IF GoogleMerchant THEN gPrefix \o k ELSE k
        additionalImages == AdditionalImages(product)
        e(k, v) == [k |-> g(k), v |-> v]
    IN Assign(
         Assign(<< >>,
           << e(kId, variant.id),
              e(kItemGroupId, product.id),
              e(kTitle, product.title),
              e(kDescription, product.description),
              e(kLink, Link(options, product, variantOptions)),
              e(kImageLink, product.thumbnail),
              e(kAdditionalImage1, At(additionalImages, 1)),
              e(kAdditionalImage2, At(additionalImages, 2)),
              e(kBrand, OrElse(Brand(options), product.type_value)),
              e(kCondition, Str(sNew)),
              e(kAvailability, Str(IF availability > 0 THEN sInStock ELSE sOutOfStock)),
              e(kPrice, Str(PriceString(OriginalAmount(variant), currencyCode))),
              e(kSalePrice, Str(PriceString(CalculatedAmount(variant), currencyCode))),
              e(kMpn, variant.sku),
              e(kProductType, product.type_value),
              e(kMaterial, OrElse(product.material, Str(<< >>))) >>),
         variantOptions)

\* the object literal of JSON mode, before the hook
JsonItem(options, product, variant, availability, variantOptions, currencyCode) ==
    LET additionalImages == AdditionalImages(product)
        e(k, v) == [k |-> k, v |-> v]
    IN Assign(
         Assign(<< >>,
           << e(kId, variant.id),
              e(kItemgroupId, product.id),
              e(kTitle, product.title),
              e(kDescription, product.description),
              e(kLink, Link(options, product, variantOptions)),
              e(kImageLink, product.thumbnail),
              e(kAdditionalImage1, At(additionalImages, 1)),
              e(kAdditionalImage2, At(additionalImages, 2)),
              e(kBrand, Brand(options)),
              e(kPrice, Str(PriceString(OriginalAmount(variant), currencyCode))),
              e(kSalePrice, Str(PriceString(CalculatedAmount(variant), currencyCode))),
              e(kAvailability, Num(availability)),
              e(kMpn, variant.sku),
              e(kProductType, product.type_value),
              e(kMaterial, OrElse(product.material, Str(<< >>))) >>),
         variantOptions)

\* the bug: any array counts as a configured list, the empty one too
IsFieldList_AnyArray(fields) == fields.t = "array"

\* Array.isArray(fields) && fields.length
IsFieldList(fields) == fields.t = "array" /\ fields.items # << >>

\* the bug: the included keys come out in the order of the include list
IncludeFilter_ListOrder(item, includeFields) ==
    IF IsFieldList(includeFields)
    THEN LET present == SelectSeq(includeFields.items, LAMBDA f : HasKey(item, f))
         IN [i \in 1..Len(present) |-> [k |-> present[i], v |-> Get(item, present[i])]]
    ELSE item

\* Object.fromEntries(Object.entries(item).filter(([k]) => includeFields.includes(k)))
IncludeFilter(item, includeFields) ==
    IF IsFieldList(includeFields)
    THEN Assign(<< >>, SelectSeq(item, LAMBDA e :
                           \E i \in 1..Len(includeFields.items) : includeFields.items[i] = e.k))
    ELSE item

\* excludeFields.forEach((f) => delete item[f])
ExcludeFilter(item, excludeFields) ==
    IF IsFieldList(excludeFields)
    THEN SelectSeq(item, LAMBDA e : ~\E i \in 1..Len(excludeFields.items) : excludeFields.items[i] = e.k)
    ELSE item

\* strip empty values
StripEmpty(item) ==
    SelectSeq(item, LAMBDA e : ~(e.v = Null \/ e.v = Undefined \/ e.v = Str(<< >>)))

\* a key no mapped item has
kExtra == << "e", "x", "t", "r", "a" >>

\* the hook's resolved value for an item. The hook is the caller's function: the
\* one called "blank" sets title to "", price to null, mpn to undefined and adds
\* the key extra; any other returns the item it was given
ApplyHook(itemTransform, item) ==
    IF itemTransform = "blank"
    THEN Set(Set(Set(Set(item, kTitle, Str(<< >>)), kPrice, Null), kMpn, Undefined),
             kExtra, Str(<< "x" >>))
    ELSE item

\* what follows the hook: field filtering and the strip
PostStages(item, a) ==
    StripEmpty(ExcludeFilter(IncludeFilter(item, a.includeFields), a.excludeFields))

\* the mapping callback up to the hook: [threw, item, availability]
PreItem(options, product, variant, availabilityOf, currencyCode, a) ==
    LET variantOptions == handleVariantOptions(variant.options, a.mode, a.GoogleMerchant)
        availability == availabilityOf
    IN IF variantOptions.threw THEN [threw |-> TRUE, item |-> << >>]
       ELSE [threw |-> FALSE,
             item |-> IF a.mode = "xml"
                      THEN XmlItem(options, product, variant, availability,
                                   variantOptions.obj, currencyCode, a.GoogleMerchant)
                      ELSE JsonItem(options, product, variant, availability,
                                    variantOptions.obj, currencyCode)]

---------------------------------------------------------------------------
(* The store the model runs on *)

\* this.options_ when the plugin is registered without options (the constructor)
DefaultOptions ==
    [title |-> Str(<< "P", "r", "o", "d", "u", "c", "t", " ", "F", "e", "e", "d" >>),
     link |-> Str(exampleUrl),
     description |-> Str(<< "A", " ", "f", "e", "e", "d", " ", "o", "f", " ", "p", "r", "o",
                            "d", "u", "c", "t", "s", " ", "f", "r", "o", "m", " ", "o", "u",
                            "r", " ", "s", "t", "o", "r", "e" >>),
     brand |-> Str(<< "E", "x", "a", "m", "p", "l", "e", " ", "B", "r", "a", "n", "d" >>)]

\* the option values a variant is drawn from: [title, value]
OptionTitles ==
    { Undefined, Str(sDefault), Str(<< "S", "i", "z", "e" >>),
      Str(<< "T", "i", "t", "l", "e" >>), Str(<< "7" >>) }
OptionValueStrings ==
    { Undefined, Str(<< >>), Str(<< "M" >>), Str(sDefault),
      Str(<< "m", "y", " ", "d", "e", "f", "a", "u", "l", "t" >>),
      Str(<< "D", "E", "F", "A", "U", "L", "T" >>) }
OptionValues == { [title |-> t, value |-> v] : t \in OptionTitles, v \in OptionValueStrings }

OptionLists == SeqsUpTo(OptionValues, MaxOptions)

Price(original, calculated) ==
    [t |-> "object", original_amount |-> original, calculated_amount |-> calculated]

Variant(id, sku, options, price) ==
    [id |-> Str(id), sku |-> sku, options |-> options, calculated_price |-> price]

Product(id, channels, images, variants) ==
    [id |-> Str(id), title |-> Str(<< "T" >> \o id), description |-> Null,
     handle |-> Str(<< "h" >> \o id), thumbnail |-> Str(<< "i", "0" >>),
     images |-> images, material |-> Undefined, type_value |-> Str(<< "t", "y" >>),
     sales_channels |-> channels, variants |-> variants]

Opt(title, value) == [title |-> Str(title), value |-> Str(value)]

sc1 == << "s", "c", "1" >>
sc2 == << "s", "c", "2" >>
usd == << "u", "s", "d" >>
eur == << "e", "u", "r" >>

\* the arguments of buildMappedFeedData the per-variant mapping reads
MapArgs(mode, GoogleMerchant) ==
    [mode |-> mode, GoogleMerchant |-> GoogleMerchant, itemTransform |-> "none",
     includeFields |-> Undefined, excludeFields |-> Undefined]

---------------------------------------------------------------------------
(* The regions, the catalog and the inventory of the store *)

\* r1 is listed without its countries, r2 with Denmark
r1 == [id |-> << "r", "1" >>, currency_code |-> usd, countries |-> Undefined]
r2 == [id |-> << "r", "2" >>, currency_code |-> eur,
       countries |-> Arr(<< [iso_2 |-> Str(<< "d", "k" >>),
                             iso_3 |-> Str(<< "d", "n", "k" >>)] >>)]

RegionLists == { << >>, << r1 >>, << r1, r2 >> }

vA1 == << "v", "A", "1" >>
vA2 == << "v", "A", "2" >>
vB1 == << "v", "B", "1" >>
vC1 == << "v", "C", "1" >>
vC2 == << "v", "C", "2" >>
vD1 == << "v", "D", "1" >>

\* a product in sc1 with a priced variant and a variant without calculated price
pA == Product(<< "a" >>, << sc1 >>, << Str(<< "i", "1" >>) >>,
              << Variant(vA1, Str(<< "s", "1" >>),
                         << Opt(<< "S", "i", "z", "e" >>, << "M" >>) >>,
                         Price(Num(1000), Num(900))),
                 Variant(vA2, Str(<< "s", "2" >>), << >>, Undefined) >>)

\* a product in sc2 and sc1 whose variant has a calculated price with a null original amount
pB == Product(<< "b" >>, << sc2, sc1 >>, << >>,
              << Variant(vB1, Null, << Opt(<< "S", "i", "z", "e" >>, sDefault) >>,
                         Price(Null, Num(500))) >>)

\* a product in no sales channel, with two priced variants
pC == Product(<< "c" >>, << >>, << >>,
              << Variant(vC1, Str(<< "s", "4" >>), << >>, Price(Num(200), Num(200))),
                 Variant(vC2, Str(<< "s", "5" >>), << >>, Price(Num(300), Num(250))) >>)

\* a second product in sc1, whose variant is out of stock
pD == Product(<< "d" >>, << sc1 >>, << >>,
              << Variant(vD1, Str(<< "s", "6" >>), << >>, Price(Num(700), Num(700))) >>)

ProductPool == { pA, pB, pC, pD }

\* the catalogs: the products of the pool, each at most once, in any order
Catalogs ==
    { c \in SeqsUpTo(ProductPool, MaxProducts) :
        \A i, j \in 1..Len(c) : i # j => c[i] # c[j] }

\* the quantity the inventory holds of a variant in a sales channel
Inventory(scId, variantId) ==
    CASE scId = sc1 /\ variantId = vA1 -> 3
      [] scId = sc2 /\ variantId = vB1 -> 5
      [] OTHER -> 0

\* what getVariantAvailability resolves to: an object keyed by the variant ids asked for
AvailabilityResult(scId, variantIds) ==
    Assign(<< >>, [i \in 1..Len(variantIds) |->
                     [k |-> variantIds[i], v |-> Inventory(scId, variantIds[i])]])

---------------------------------------------------------------------------
(* The arguments and the requests *)

BatchSizeDefault == 50

BuildArgs(regionId, currencyCode, mode, batchSize, page, pageSize, itemTransform) ==
    [regionId |-> regionId, currencyCode |-> currencyCode, mode |-> mode,
     GoogleMerchant |-> FALSE, batchSize |-> batchSize, page |-> page,
     pageSize |-> pageSize, itemTransform |-> itemTransform,
     includeFields |-> Undefined, excludeFields |-> Undefined]

\* direct calls that differ in the region they ask for
RegionArgs ==
    { BuildArgs(regionId, currencyCode, "json", Undefined, Undefined, Undefined, itemTransform) :
        regionId \in { Undefined, Str(<< >>), Str(r2.id), Str(<< "r", "X" >>) },
        currencyCode \in { Undefined, Str(usd), Str(eur), Str(<< "x", "x", "x" >>) },
        itemTransform \in { "none", "identity" } }

\* direct calls that differ in mode, batching, paging and hook
BatchArgs ==
    { BuildArgs(Undefined, Undefined, mode, batchSize, page, pageSize, itemTransform) :
        mode \in { "json", "xml" },
        batchSize \in { Undefined, Num(1) },
        page \in { Undefined, Num(-1), Num(0), Num(1), Num(2) },
        pageSize \in { Undefined, Num(0), Num(2) },
        itemTransform \in { "none", "identity" } }

\* a query parameter given twice reaches the handler as an array
ArrayValue == Arr(<< Str(eur), Str(usd) >>)

Requests ==
    { [country_code |-> cc, currency |-> cur] :
        cc \in { Undefined, Str(<< "D", "K" >>), Str(<< "d", "n", "k" >>), Str(<< "z", "z" >>) },
        cur \in { Undefined, Str(<< >>), Str(eur), Str(<< "x", "x", "x" >>), ArrayValue } }

---------------------------------------------------------------------------
(* Region selection and batch plan of buildMappedFeedData *)

\* regions.find(pred): the first match, undefined when there is none
Find(list, Pred(_)) ==
    IF \E i \in 1..Len(list) : Pred(list[i])
    THEN list[CHOOSE i \in 1..Len(list) :
                 Pred(list[i]) /\ \A j \in 1..(i - 1) : ~Pred(list[j])]
    ELSE Undefined

\* the bug: the fallback is the last region of the list, not the first
SelectRegion_FallbackLast(regionList, a) ==
    LET regionById == IF Truthy(a.regionId)
                      THEN Find(regionList, LAMBDA r : r.id = a.regionId.s) ELSE Undefined
        regionByCurrency == IF Truthy(a.currencyCode)
                            THEN Find(regionList, LAMBDA r : r.currency_code = a.currencyCode.s)
                            ELSE Undefined
    IN IF regionById # Undefined THEN regionById
       ELSE IF regionByCurrency # Undefined THEN regionByCurrency
       ELSE regionList[Len(regionList)]

\* the bug: the currency match is preferred to the id match
SelectRegion_CurrencyFirst(regionList, a) ==
    LET regionById == IF Truthy(a.regionId)
                      THEN Find(regionList, LAMBDA r : r.id = a.regionId.s) ELSE Undefined
        regionByCurrency == IF Truthy(a.currencyCode)
                            THEN Find(regionList, LAMBDA r : r.currency_code = a.currencyCode.s)
                            ELSE Undefined
    IN IF regionByCurrency # Undefined THEN regionByCurrency
       ELSE IF regionById # Undefined THEN regionById
       ELSE regionList[1]

\* const selectedRegion = regionById || regionByCurrency || regions[0]
SelectRegion(regionList, a) ==
    LET regionById == IF Truthy(a.regionId)
                      THEN Find(regionList, LAMBDA r : r.id = a.regionId.s) ELSE Undefined
        regionByCurrency == IF Truthy(a.currencyCode)
                            THEN Find(regionList, LAMBDA r : r.currency_code = a.currencyCode.s)
                            ELSE Undefined
    IN IF regionById # Undefined THEN regionById
       ELSE IF regionByCurrency # Undefined THEN regionByCurrency
       ELSE regionList[1]

Max(a, b) == IF a >= b THEN a ELSE b
Min(a, b) == IF a <= b THEN a ELSE b

\* Math.ceil(a / b) for b >= 1
CeilDiv(a, b) == (a + b - 1) \div b

\* the bug: page 0 counts as a page
IsPage_NonNegative(page) == IsNum(page) /\ page.n >= 0

\* typeof page === 'number' && page > 0
IsPage(page) == IsNum(page) /\ page.n > 0

\* the bug: pageSize is read only when a page is requested
BatchPlan_PageSizeOnlyWithPage(count, a) ==
    LET effectiveBatchSize ==
            Max(1, IF IsPage(a.page) /\ a.pageSize # Undefined /\ a.pageSize # Null
                   THEN a.pageSize.n
                   ELSE IF a.batchSize # Undefined THEN a.batchSize.n ELSE BatchSizeDefault)
        batches == CeilDiv(count, effectiveBatchSize)
        startBatch == IF IsPage(a.page) THEN a.page.n - 1 ELSE 0
    IN [totalProducts |-> count, effectiveBatchSize |-> effectiveBatchSize,
        batches |-> batches, startBatch |-> startBatch,
        endBatch |-> IF IsPage(a.page) THEN startBatch ELSE batches - 1]

\* the bug: Math.floor for Math.ceil, the last partial batch is lost
BatchPlan_Floor(count, a) ==
    LET effectiveBatchSize ==
            Max(1, IF a.pageSize # Undefined /\ a.pageSize # Null THEN a.pageSize.n
                   ELSE IF a.batchSize # Undefined THEN a.batchSize.n ELSE BatchSizeDefault)
        batches == count \div effectiveBatchSize
        startBatch == IF IsPage(a.page) THEN a.page.n - 1 ELSE 0
    IN [totalProducts |-> count, effectiveBatchSize |-> effectiveBatchSize,
        batches |-> batches, startBatch |-> startBatch,
        endBatch |-> IF IsPage(a.page) THEN startBatch ELSE batches - 1]

\* the bug: a page of an empty catalog is not fetched
BatchPlan_SkipEmpty(count, a) ==
    LET effectiveBatchSize ==
            Max(1, IF a.pageSize # Undefined /\ a.pageSize # Null THEN a.pageSize.n
                   ELSE IF a.batchSize # Undefined THEN a.batchSize.n ELSE BatchSizeDefault)
        batches == CeilDiv(count, effectiveBatchSize)
        startBatch == IF IsPage(a.page) THEN a.page.n - 1 ELSE 0
    IN [totalProducts |-> count, effectiveBatchSize |-> effectiveBatchSize,
        batches |-> batches, startBatch |-> startBatch,
        endBatch |-> IF IsPage(a.page) /\ count > 0 THEN startBatch ELSE batches - 1]

\* totalProducts, effectiveBatchSize, batches, startBatch, endBatch
BatchPlan(count, a) ==
    LET effectiveBatchSize ==
            Max(1, IF a.pageSize # Undefined /\ a.pageSize # Null THEN a.pageSize.n
                   ELSE IF a.batchSize # Undefined THEN a.batchSize.n ELSE BatchSizeDefault)
        batches == CeilDiv(count, effectiveBatchSize)
        startBatch == IF IsPage(a.page) THEN a.page.n - 1 ELSE 0
    IN [totalProducts |-> count, effectiveBatchSize |-> effectiveBatchSize,
        batches |-> batches, startBatch |-> startBatch,
        endBatch |-> IF IsPage(a.page) THEN startBatch ELSE batches - 1]

\* the products query.graph returns for pagination { take, skip }
Page(products, skip, take) == SubSeq(products, skip + 1, Min(skip + take, Len(products)))

---------------------------------------------------------------------------
(* The build at rest: the state of the specifications that apply one function *)

NoBuild ==
    /\ regions = << >>
    /\ catalog = << >>
    /\ entry = "none"
    /\ request = [country_code |-> Undefined, currency |-> Undefined]
    /\ args = Undefined
    /\ pc = "idle"
    /\ selectedRegion = Undefined
    /\ plan = Undefined
    /\ batchIndex = 0
    /\ productBatch = << >>
    /\ availabilityPromises = << >>
    /\ availabilityMap = << >>
    /\ tasks = << >>
    /\ mappedVariants = << >>
    /\ mappedFrom = << >>
    /\ returned = [status |-> "pending"]
    /\ response = [status |-> "pending"]
    /\ calls = << >>
    /\ failedAt = -1
    /\ builds = << >>

---------------------------------------------------------------------------
(* sanitizeXmlName applied to a label, and to its own output *)

InitSanitize ==
    /\ NoBuild
    /\ \E name \in Labels :
         probe = [fn |-> "sanitizeXmlName", applied |-> 0, name |-> name,
                  once |-> << >>, twice |-> << >>]

SanitizeOnce ==
    /\ probe.fn = "sanitizeXmlName" /\ probe.applied = 0
    /\ probe' = [probe EXCEPT !.applied = 1, !.once = sanitizeXmlName(probe.name)]
    /\ UNCHANGED buildVars

SanitizeTwice ==
    /\ probe.fn = "sanitizeXmlName" /\ probe.applied = 1
    /\ probe' = [probe EXCEPT !.applied = 2, !.twice = sanitizeXmlName(probe.once)]
    /\ UNCHANGED buildVars

NextSanitize == SanitizeOnce \/ SanitizeTwice

SpecSanitize == InitSanitize /\ [][NextSanitize]_vars

---------------------------------------------------------------------------
(* The per-variant mapping applied to one variant of one product *)

ProbeProduct(variant) ==
    Product(<< "p", "1" >>, << sc1 >>, << Str(<< "i", "1" >>) >>, << variant >>)

InitItem ==
    /\ NoBuild
    /\ \E options \in OptionLists, mode \in { "json", "xml" }, GoogleMerchant \in BOOLEAN :
         probe = [fn |-> "mapVariant", applied |-> FALSE,
                  variant |-> Variant(<< "v", "1" >>, Str(<< "s", "1" >>), options,
                                      Price(Num(1000), Num(900))),
                  availability |-> 3,
                  a |-> MapArgs(mode, GoogleMerchant),
                  variantOptions |-> [threw |-> FALSE, obj |-> << >>],
                  mapped |-> [threw |-> FALSE, item |-> << >>]]

\* the callback of .map(async (variant) => ...) with no hook configured
MapVariant ==
    /\ probe.fn = "mapVariant" /\ ~probe.applied
    /\ LET pre == PreItem(DefaultOptions, ProbeProduct(probe.variant), probe.variant,
                          probe.availability, usd, probe.a)
       IN probe' = [probe EXCEPT
                      !.applied = TRUE,
                      !.variantOptions = handleVariantOptions(probe.variant.options,
                                             probe.a.mode, probe.a.GoogleMerchant),
                      !.mapped = IF pre.threw THEN pre
                                 ELSE [threw |-> FALSE, item |-> PostStages(pre.item, probe.a)]]
    /\ UNCHANGED buildVars

NextItem == MapVariant

SpecItem == InitItem /\ [][NextItem]_vars

---------------------------------------------------------------------------
(* The stages after the object literal of one item, one at a time *)

\* the includeFields / excludeFields arguments a call is made with
FieldLists ==
    { Undefined, Arr(<< >>), Arr(<< kExtra, kLink, kId, kTitle >>), Arr(<< kBrand, kExtra >>) }

StageVariant ==
    Variant(<< "v", "1" >>, Str(<< "s", "1" >>), << Opt(<< "S", "i", "z", "e" >>, << "M" >>) >>,
            Price(Num(1000), Num(900)))

\* probe.trace holds the item after each stage that has run
InitStages ==
    /\ NoBuild
    /\ \E mode \in { "json", "xml" }, itemTransform \in { "none", "identity", "blank" },
          includeFields \in FieldLists, excludeFields \in FieldLists :
         LET a == [MapArgs(mode, FALSE) EXCEPT !.itemTransform = itemTransform,
                                               !.includeFields = includeFields,
                                               !.excludeFields = excludeFields]
         IN probe = [fn |-> "stages", a |-> a,
                     item |-> PreItem(DefaultOptions, ProbeProduct(StageVariant), StageVariant,
                                      3, usd, a).item,
                     trace |-> << >>]

\* if (typeof itemTransform === 'function') itemData = await itemTransform(itemData, ctx)
RunHook ==
    /\ probe.fn = "stages" /\ Len(probe.trace) = 0
    /\ LET item == IF probe.a.itemTransform # "none"
                   THEN ApplyHook(probe.a.itemTransform, probe.item) ELSE probe.item
       IN probe' = [probe EXCEPT !.item = item, !.trace = Append(@, item)]
    /\ UNCHANGED buildVars

\* if (Array.isArray(includeFields) && includeFields.length) itemData = Object.fromEntries(...)
RunInclude ==
    /\ probe.fn = "stages" /\ Len(probe.trace) = 1
    /\ LET item == IncludeFilter(probe.item, probe.a.includeFields)
       IN probe' = [probe EXCEPT !.item = item, !.trace = Append(@, item)]
    /\ UNCHANGED buildVars

\* if (Array.isArray(excludeFields) && excludeFields.length) excludeFields.forEach(delete)
RunExclude ==
    /\ probe.fn = "stages" /\ Len(probe.trace) = 2
    /\ LET item == ExcludeFilter(probe.item, probe.a.excludeFields)
       IN probe' = [probe EXCEPT !.item = item, !.trace = Append(@, item)]
    /\ UNCHANGED buildVars

\* Object.keys(itemData).forEach(key => delete the null, undefined and "" values)
RunStrip ==
    /\ probe.fn = "stages" /\ Len(probe.trace) = 3
    /\ LET item == StripEmpty(probe.item)
       IN probe' = [probe EXCEPT !.item = item, !.trace = Append(@, item)]
    /\ UNCHANGED buildVars

NextStages == RunHook \/ RunInclude \/ RunExclude \/ RunStrip

SpecStages == InitStages /\ [][NextStages]_vars

---------------------------------------------------------------------------
(* The additional images of one product *)

\* product.images[i].url: the thumbnail's URL, two others, or none
ImageUrls == { Undefined, Str(<< "i", "0" >>), Str(<< "a" >>), Str(<< "b" >>) }

InitImages ==
    /\ NoBuild
    /\ \E images \in SeqsUpTo(ImageUrls, MaxImages) :
         probe = [fn |-> "images", applied |-> FALSE,
                  product |-> Product(<< "p", "1" >>, << sc1 >>, images, << StageVariant >>),
                  additionalImages |-> << >>]

\* rawImages and the loop that fills additionalImages
CollectImages ==
    /\ probe.fn = "images" /\ ~probe.applied
    /\ probe' = [probe EXCEPT !.applied = TRUE,
                              !.additionalImages = AdditionalImages(probe.product)]
    /\ UNCHANGED buildVars

NextImages == CollectImages

SpecImages == InitImages /\ [][NextImages]_vars

---------------------------------------------------------------------------
(* The merge of the availability results of one batch *)

\* the bug: the results are taken in the order in which the queries completed
AwaitAll_CompletionOrder(results, settled) ==
    [i \in 1..Len(settled) |-> results[settled[i]]]

\* await Promise.all(availabilityPromises): the values in the order of the
\* promises, whatever the order in which they were fulfilled
AwaitAll(results, settled) == results

\* for (const result of availabilityResults) for (const variantId in result) map.set(...)
RECURSIVE MergeObjects(_, _)
MergeObjects(results, map) ==
    IF results = << >> THEN map
    ELSE MergeObjects(Tail(results), Assign(map, Head(results)))

\* what one query can resolve to: an object keyed by variant id
ResultObjects ==
    { Assign(<< >>, a \o b) :
        a \in { << >>, << [k |-> vA1, v |-> 1] >>, << [k |-> vA1, v |-> 2] >> },
        b \in { << >>, << [k |-> vB1, v |-> 5] >> } }

\* probe.results[i] is what the i-th pushed query resolves to, probe.settled the
\* order in which the queries complete
InitMerge ==
    /\ NoBuild
    /\ \E results \in SeqsUpTo(ResultObjects, MaxQueries) :
         probe = [fn |-> "merge", results |-> results, settled |-> << >>,
                  done |-> FALSE, merged |-> << >>]

\* the i-th query is fulfilled
Settle(i) ==
    /\ probe.fn = "merge" /\ ~probe.done
    /\ \A j \in 1..Len(probe.settled) : probe.settled[j] # i
    /\ probe' = [probe EXCEPT !.settled = Append(@, i)]
    /\ UNCHANGED buildVars

\* every query is fulfilled: Promise.all resolves and the results are merged
Merge ==
    /\ probe.fn = "merge" /\ ~probe.done
    /\ Len(probe.settled) = Len(probe.results)
    /\ probe' = [probe EXCEPT !.done = TRUE,
                              !.merged = MergeObjects(AwaitAll(probe.results, probe.settled),
                                                      << >>)]
    /\ UNCHANGED buildVars

NextMerge == (\E i \in 1..Len(probe.results) : Settle(i)) \/ Merge

SpecMerge == InitMerge /\ [][NextMerge]_vars

---------------------------------------------------------------------------
(* The GET handlers of the v2 JSON route and of the v1 XML route *)

\* schema.safeParse(req.query).success: both parameters are optional strings
SchemaAccepts(req) ==
    /\ req.country_code = Undefined \/ IsStr(req.country_code)
    /\ req.currency = Undefined \/ IsStr(req.currency)

\* the code a country is matched by: c?.iso_2 || c?.iso_3 in v2, and
\* c?.iso_2 || c?.iso2 || c?.code in v1, where a country has neither iso2 nor code
CountryCode(route, c) ==
    IF route = "v2json" THEN OrElse(c.iso_2, c.iso_3)
    ELSE OrElse(OrElse(c.iso_2, Undefined), Undefined)

MatchesCountry(route, r, cc) ==
    /\ r.countries.t = "array"
    /\ \E i \in 1..Len(r.countries.items) :
         LET code == CountryCode(route, r.countries.items[i])
         IN IsStr(code) /\ toLowerCase(code.s) = cc

NotFound(message) == [status |-> 404, message |-> message]

\* the bug: a currency that matches no region falls back to the default region
RouteRegion_NoCurrencyCheck(route, regionList, req) ==
    LET defaultRegion == regionList[1]
        byCountry == Find(regionList,
                          LAMBDA r : MatchesCountry(route, r, toLowerCase(req.country_code.s)))
        byCurrency == Find(regionList, LAMBDA r : r.currency_code = req.currency.s)
    IN IF SchemaAccepts(req) /\ Truthy(req.country_code)
       THEN IF byCountry = Undefined THEN NotFound("No region found for country code")
            ELSE [status |-> 200, region_id |-> byCountry.id,
                  currency_code |-> byCountry.currency_code]
       ELSE IF SchemaAccepts(req) /\ Truthy(req.currency) /\ byCurrency # Undefined
       THEN [status |-> 200, region_id |-> byCurrency.id,
             currency_code |-> byCurrency.currency_code]
       ELSE [status |-> 200, region_id |-> defaultRegion.id,
             currency_code |-> defaultRegion.currency_code]

\* region_id / currency_code of the handler for a non-empty region list, or its 404
RouteRegion(route, regionList, req) ==
    LET defaultRegion == regionList[1]
        byCountry == Find(regionList,
                          LAMBDA r : MatchesCountry(route, r, toLowerCase(req.country_code.s)))
        byCurrency == Find(regionList, LAMBDA r : r.currency_code = req.currency.s)
    IN IF SchemaAccepts(req) /\ Truthy(req.country_code)
       THEN IF byCountry = Undefined THEN NotFound("No region found for country code")
            ELSE [status |-> 200, region_id |-> byCountry.id,
                  currency_code |-> byCountry.currency_code]
       ELSE IF SchemaAccepts(req) /\ Truthy(req.currency)
       THEN IF byCurrency = Undefined THEN NotFound("No region found with currency code")
            ELSE [status |-> 200, region_id |-> byCurrency.id,
                  currency_code |-> byCurrency.currency_code]
       ELSE [status |-> 200, region_id |-> defaultRegion.id,
             currency_code |-> defaultRegion.currency_code]

RouteMode(route) == IF route = "v1xml" THEN "xml" ELSE "json"

\* GET up to the call of pf.buildMappedFeedData: lists the regions, answers 404
\* or delegates to the builder
RouteGET ==
    /\ pc = "route"
    /\ calls' = Append(calls, [op |-> "listRegions", by |-> entry])
    /\ IF regions = << >>
       THEN /\ response' = NotFound("No regions found")
            /\ pc' = "responded"
            /\ UNCHANGED args
       ELSE LET found == RouteRegion(entry, regions, request)
            IN IF found.status = 404
               THEN /\ response' = found
                    /\ pc' = "responded"
                    /\ UNCHANGED args
               ELSE /\ args' = BuildArgs(Str(found.region_id), Str(found.currency_code),
                                         RouteMode(entry), Undefined, Undefined, Undefined,
                                         "none")
                    /\ pc' = "build"
                    /\ UNCHANGED response
    /\ UNCHANGED << regions, catalog, entry, request, selectedRegion, plan, batchIndex,
                    productBatch, availabilityPromises, availabilityMap, tasks,
                    mappedVariants, mappedFrom, returned, failedAt, probe,
                    builds >>

\* res.status(200).json(items) / res.status(200).send(xml); a rejected build
\* leaves the handler by the exception
RouteRespond ==
    /\ pc = "returned" /\ entry # "direct"
    /\ response' = IF returned.status = "fulfilled"
                   THEN [status |-> 200, items |-> returned.items]
                   ELSE [status |-> "thrown"]
    /\ pc' = "responded"
    /\ UNCHANGED << regions, catalog, entry, request, args, selectedRegion, plan, batchIndex,
                    productBatch, availabilityPromises, availabilityMap, tasks,
                    mappedVariants, mappedFrom, returned, calls, failedAt, probe,
                    builds >>

---------------------------------------------------------------------------
(* buildMappedFeedData *)

\* the bug: no check of an empty list, reading regions[0].id throws
ListRegions_NoEmptyCheck ==
    /\ pc = "build"
    /\ calls' = Append(calls, [op |-> "listRegions", by |-> "build"])
    /\ IF regions = << >>
       THEN /\ returned' = [status |-> "rejected"]
            /\ pc' = "returned"
            /\ UNCHANGED selectedRegion
       ELSE /\ selectedRegion' = SelectRegion(regions, args)
            /\ pc' = "count"
            /\ UNCHANGED returned
    /\ UNCHANGED << regions, catalog, entry, request, args, plan, batchIndex, productBatch,
                    availabilityPromises, availabilityMap, tasks, mappedVariants,
                    mappedFrom, response, failedAt, probe,
                    builds >>

\* regions = await regionsModule.listRegions(); return [] or select the region
ListRegions ==
    /\ pc = "build"
    /\ calls' = Append(calls, [op |-> "listRegions", by |-> "build"])
    /\ IF regions = << >>
       THEN /\ returned' = [status |-> "fulfilled", items |-> << >>]
            /\ pc' = "returned"
            /\ UNCHANGED selectedRegion
       ELSE /\ selectedRegion' = SelectRegion(regions, args)
            /\ pc' = "count"
            /\ UNCHANGED returned
    /\ UNCHANGED << regions, catalog, entry, request, args, plan, batchIndex, productBatch,
                    availabilityPromises, availabilityMap, tasks, mappedVariants,
                    mappedFrom, response, failedAt, probe,
                    builds >>

\* const [, count] = await productModule.listAndCountProducts(), and the batch plan
CountProducts ==
    /\ pc = "count"
    /\ calls' = Append(calls, [op |-> "listAndCountProducts"])
    /\ plan' = BatchPlan(Len(catalog), args)
    /\ batchIndex' = plan'.startBatch
    /\ pc' = "loop"
    /\ UNCHANGED << regions, catalog, entry, request, args, selectedRegion, productBatch,
                    availabilityPromises, availabilityMap, tasks, mappedVariants,
                    mappedFrom, returned, response, failedAt, probe,
                    builds >>

\* the loop condition fails: return mappedVariants
ReturnMapped ==
    /\ pc = "loop" /\ batchIndex > plan.endBatch
    /\ returned' = [status |-> "fulfilled", items |-> mappedVariants]
    /\ pc' = "returned"
    /\ UNCHANGED << regions, catalog, entry, request, args, selectedRegion, plan, batchIndex,
                    productBatch, availabilityPromises, availabilityMap, tasks,
                    mappedVariants, mappedFrom, response, calls, failedAt, probe,
                    builds >>

\* salesChannelVariantMap: the variant ids of the batch by first sales channel
RECURSIVE SalesChannelVariantMap(_, _)
SalesChannelVariantMap(products, map) ==
    IF products = << >> THEN map
    ELSE LET product == Head(products)
             scId == product.sales_channels[1]
             ids == [i \in 1..Len(product.variants) |-> product.variants[i].id.s]
             list == IF HasKey(map, scId) THEN Get(map, scId) ELSE << >>
         IN IF Len(product.sales_channels) > 0
            THEN SalesChannelVariantMap(Tail(products), Set(map, scId, list \o ids))
            ELSE SalesChannelVariantMap(Tail(products), map)

\* the bug: one availability query per product that is in a sales channel
AvailabilityQueries_PerProduct(products) ==
    LET listed == SelectSeq(products, LAMBDA product :
                               product.sales_channels # << >> /\ product.variants # << >>)
    IN [p \in 1..Len(listed) |->
          [k |-> listed[p].sales_channels[1],
           v |-> [i \in 1..Len(listed[p].variants) |-> listed[p].variants[i].id.s]]]

\* the availability queries of a batch, in the order they are pushed
AvailabilityQueries(products) ==
    SelectSeq(SalesChannelVariantMap(products, << >>), LAMBDA e : Len(e.v) > 0)

\* the bug: the offset is the batch index, not batchIndex * effectiveBatchSize
FetchBatch_OffsetByIndex ==
    /\ pc = "loop" /\ batchIndex <= plan.endBatch
    /\ LET offset == batchIndex
           batch == Page(catalog, offset, plan.effectiveBatchSize)
           queries == AvailabilityQueries(batch)
       IN /\ productBatch' = batch
          /\ availabilityPromises' =
               [i \in 1..Len(queries) |->
                  [sales_channel_id |-> queries[i].k, variant_ids |-> queries[i].v,
                   state |-> "pending"]]
          /\ calls' = calls
               \o << [op |-> "graph", skip |-> offset, take |-> plan.effectiveBatchSize,
                      region_id |-> selectedRegion.id,
                      currency_code |-> selectedRegion.currency_code] >>
               \o [i \in 1..Len(queries) |->
                     [op |-> "getVariantAvailability", sales_channel_id |-> queries[i].k,
                      variant_ids |-> queries[i].v]]
    /\ availabilityMap' = << >>
    /\ pc' = "availability"
    /\ UNCHANGED << regions, catalog, entry, request, args, selectedRegion, plan, batchIndex,
                    tasks, mappedVariants, mappedFrom, returned, response, failedAt, probe,
                    builds >>

\* the bug: the query context carries the caller's currencyCode, not the
\* selected region's
FetchBatch_CallerCurrency ==
    /\ pc = "loop" /\ batchIndex <= plan.endBatch
    /\ LET offset == batchIndex * plan.effectiveBatchSize
           batch == Page(catalog, offset, plan.effectiveBatchSize)
           queries == AvailabilityQueries(batch)
       IN /\ productBatch' = batch
          /\ availabilityPromises' =
               [i \in 1..Len(queries) |->
                  [sales_channel_id |-> queries[i].k, variant_ids |-> queries[i].v,
                   state |-> "pending"]]
          /\ calls' = calls
               \o << [op |-> "graph", skip |-> offset, take |-> plan.effectiveBatchSize,
                      region_id |-> selectedRegion.id,
                      currency_code |-> IF Truthy(args.currencyCode)
                                       THEN args.currencyCode.s
                                       ELSE selectedRegion.currency_code] >>
               \o [i \in 1..Len(queries) |->
                     [op |-> "getVariantAvailability", sales_channel_id |-> queries[i].k,
                      variant_ids |-> queries[i].v]]
    /\ availabilityMap' = << >>
    /\ pc' = "availability"
    /\ UNCHANGED << regions, catalog, entry, request, args, selectedRegion, plan, batchIndex,
                    tasks, mappedVariants, mappedFrom, returned, response, failedAt, probe,
                    builds >>

\* await query.graph({ entity: "product", ..., pagination: { take, skip } }),
\* then one getVariantAvailability call per sales channel group
FetchBatch ==
    /\ pc = "loop" /\ batchIndex <= plan.endBatch
    /\ LET offset == batchIndex * plan.effectiveBatchSize
           batch == Page(catalog, offset, plan.effectiveBatchSize)
           queries == AvailabilityQueries(batch)
       IN /\ productBatch' = batch
          /\ availabilityPromises' =
               [i \in 1..Len(queries) |->
                  [sales_channel_id |-> queries[i].k, variant_ids |-> queries[i].v,
                   state |-> "pending"]]
          /\ calls' = calls
               \o << [op |-> "graph", skip |-> offset, take |-> plan.effectiveBatchSize,
                      region_id |-> selectedRegion.id,
                      currency_code |-> selectedRegion.currency_code] >>
               \o [i \in 1..Len(queries) |->
                     [op |-> "getVariantAvailability", sales_channel_id |-> queries[i].k,
                      variant_ids |-> queries[i].v]]
    /\ availabilityMap' = << >>
    /\ pc' = "availability"
    /\ UNCHANGED << regions, catalog, entry, request, args, selectedRegion, plan, batchIndex,
                    tasks, mappedVariants, mappedFrom, returned, response, failedAt, probe,
                    builds >>

\* one availability query resolves
AvailabilityResolves(i) ==
    /\ pc = "availability" /\ availabilityPromises[i].state = "pending"
    /\ availabilityPromises' = [availabilityPromises EXCEPT ![i].state = "fulfilled"]
    /\ UNCHANGED << regions, catalog, entry, request, args, pc, selectedRegion, plan,
                    batchIndex, productBatch, availabilityMap, tasks, mappedVariants,
                    mappedFrom, returned, response, calls, failedAt, probe,
                    builds >>

\* the bug: a query that rejects is issued a second time before it is given up
AvailabilityRejects_Retry(i) ==
    /\ pc = "availability" /\ availabilityPromises[i].state = "pending"
    /\ LET call == [op |-> "getVariantAvailability",
                    sales_channel_id |-> availabilityPromises[i].sales_channel_id,
                    variant_ids |-> availabilityPromises[i].variant_ids]
       IN IF Len(SelectSeq(calls, LAMBDA c : c = call)) < 2
          THEN calls' = Append(calls, call) /\ UNCHANGED availabilityPromises
          ELSE /\ availabilityPromises' = [availabilityPromises EXCEPT ![i].state = "rejected"]
               /\ UNCHANGED calls
    /\ UNCHANGED << regions, catalog, entry, request, args, pc, selectedRegion, plan,
                    batchIndex, productBatch, availabilityMap, tasks, mappedVariants,
                    mappedFrom, returned, response, failedAt, probe,
                    builds >>

\* one availability query rejects
AvailabilityRejects(i) ==
    /\ pc = "availability" /\ availabilityPromises[i].state = "pending"
    /\ availabilityPromises' = [availabilityPromises EXCEPT ![i].state = "rejected"]
    /\ UNCHANGED << regions, catalog, entry, request, args, pc, selectedRegion, plan,
                    batchIndex, productBatch, availabilityMap, tasks, mappedVariants,
                    mappedFrom, returned, response, calls, failedAt, probe,
                    builds >>

\* the build's promise rejects: the exception leaves buildMappedFeedData
Reject ==
    /\ returned' = [status |-> "rejected"]
    /\ failedAt' = Len(calls)
    /\ pc' = "returned"

\* await Promise.all(availabilityPromises) throws at the first rejection
AvailabilityFails ==
    /\ pc = "availability"
    /\ \E i \in 1..Len(availabilityPromises) : availabilityPromises[i].state = "rejected"
    /\ Reject
    /\ UNCHANGED << regions, catalog, entry, request, args, selectedRegion, plan, batchIndex,
                    productBatch, availabilityPromises, availabilityMap, tasks,
                    mappedVariants, mappedFrom, response, calls, probe,
                    builds >>

\* the results of the build's queries, merged in the order of the promises
MergeResults(promises, map) ==
    MergeObjects([i \in 1..Len(promises) |->
                     AvailabilityResult(promises[i].sales_channel_id, promises[i].variant_ids)],
                 map)

\* the bug: a variant without an entry counts as one in stock
Availability_DefaultOne(map, variantId) == IF HasKey(map, variantId) THEN Get(map, variantId) ELSE 1

\* availabilityMap.get(variant.id)?.availability || 0
Availability(map, variantId) == IF HasKey(map, variantId) THEN Get(map, variantId) ELSE 0

\* the promise of one .map(async (variant) => ...) callback when it reaches its
\* first await or returns
MapTask(product, variant, map, currencyCode, a) ==
    LET pre == PreItem(DefaultOptions, product, variant, Availability(map, variant.id.s),
                       currencyCode, a)
    IN IF pre.threw THEN [variant |-> variant.id.s, state |-> "rejected", item |-> << >>]
       ELSE IF a.itemTransform # "none"
       THEN [variant |-> variant.id.s, state |-> "hook", item |-> pre.item]
       ELSE [variant |-> variant.id.s, state |-> "fulfilled",
             item |-> PostStages(pre.item, a)]

\* productBatch.flatMap(product => product.variants.filter(...).map(...))
RECURSIVE MapTasks(_, _, _, _)
MapTasks(products, map, currencyCode, a) ==
    IF products = << >> THEN << >>
    ELSE LET product == Head(products)
             priced == PricedVariants(product)
         IN [i \in 1..Len(priced) |-> MapTask(product, priced[i], map, currencyCode, a)]
            \o MapTasks(Tail(products), map, currencyCode, a)

HookCalls(ts, region) ==
    LET hooked == SelectSeq(ts, LAMBDA t : t.state = "hook")
    IN [i \in 1..Len(hooked) |->
          [op |-> "itemTransform", variant |-> hooked[i].variant,
           regionId |-> region.id, currencyCode |-> region.currency_code]]

\* the bug: Promise.race for Promise.all, the mapping starts with the first result
StartMapping_AnyFulfilled ==
    /\ pc = "availability"
    /\ \/ availabilityPromises = << >>
       \/ \E i \in 1..Len(availabilityPromises) : availabilityPromises[i].state = "fulfilled"
    /\ \A i \in 1..Len(availabilityPromises) : availabilityPromises[i].state # "rejected"
    /\ LET map == MergeResults(SelectSeq(availabilityPromises,
                                         LAMBDA q : q.state = "fulfilled"), << >>)
           ts == MapTasks(productBatch, map, selectedRegion.currency_code, args)
       IN /\ availabilityMap' = map
          /\ tasks' = ts
          /\ calls' = calls \o HookCalls(ts, selectedRegion)
    /\ pc' = "mapping"
    /\ UNCHANGED << regions, catalog, entry, request, args, selectedRegion, plan, batchIndex,
                    productBatch, availabilityPromises, mappedVariants, mappedFrom,
                    returned, response, failedAt, probe,
                    builds >>

\* the bug: Promise.allSettled for Promise.all, a rejected query is passed over
StartMapping_AllSettled ==
    /\ pc = "availability"
    /\ \A i \in 1..Len(availabilityPromises) : availabilityPromises[i].state # "pending"
    /\ LET map == MergeResults(SelectSeq(availabilityPromises,
                                         LAMBDA q : q.state = "fulfilled"), << >>)
           ts == MapTasks(productBatch, map, selectedRegion.currency_code, args)
       IN /\ availabilityMap' = map
          /\ tasks' = ts
          /\ calls' = calls \o HookCalls(ts, selectedRegion)
    /\ pc' = "mapping"
    /\ UNCHANGED << regions, catalog, entry, request, args, selectedRegion, plan, batchIndex,
                    productBatch, availabilityPromises, mappedVariants, mappedFrom,
                    returned, response, failedAt, probe,
                    builds >>

\* every availability query resolved: merge the results, then start the mapping
\* of every priced variant of the batch
StartMapping ==
    /\ pc = "availability"
    /\ \A i \in 1..Len(availabilityPromises) : availabilityPromises[i].state = "fulfilled"
    /\ LET map == MergeResults(availabilityPromises, << >>)
           ts == MapTasks(productBatch, map, selectedRegion.currency_code, args)
       IN /\ availabilityMap' = map
          /\ tasks' = ts
          /\ calls' = calls \o HookCalls(ts, selectedRegion)
    /\ pc' = "mapping"
    /\ UNCHANGED << regions, catalog, entry, request, args, selectedRegion, plan, batchIndex,
                    productBatch, availabilityPromises, mappedVariants, mappedFrom,
                    returned, response, failedAt, probe,
                    builds >>

\* the hook of one variant resolves: filters and strip run, the callback returns
HookResolves(i) ==
    /\ pc = "mapping" /\ tasks[i].state = "hook"
    /\ tasks' = [tasks EXCEPT
                   ![i].state = "fulfilled",
                   ![i].item = PostStages(ApplyHook(args.itemTransform, tasks[i].item), args)]
    /\ UNCHANGED << regions, catalog, entry, request, args, pc, selectedRegion, plan,
                    batchIndex, productBatch, availabilityPromises, availabilityMap,
                    mappedVariants, mappedFrom, returned, response, calls, failedAt, probe,
                    builds >>

\* the hook of one variant throws or rejects
HookRejects(i) ==
    /\ pc = "mapping" /\ tasks[i].state = "hook"
    /\ tasks' = [tasks EXCEPT ![i].state = "rejected"]
    /\ UNCHANGED << regions, catalog, entry, request, args, pc, selectedRegion, plan,
                    batchIndex, productBatch, availabilityPromises, availabilityMap,
                    mappedVariants, mappedFrom, returned, response, calls, failedAt, probe,
                    builds >>

\* await Promise.all(batch callbacks) throws at the first rejection
MappingFails ==
    /\ pc = "mapping"
    /\ \E i \in 1..Len(tasks) : tasks[i].state = "rejected"
    /\ Reject
    /\ UNCHANGED << regions, catalog, entry, request, args, selectedRegion, plan, batchIndex,
                    productBatch, availabilityPromises, availabilityMap, tasks,
                    mappedVariants, mappedFrom, response, calls, probe,
                    builds >>

\* the bug: the mapping is not joined, the loop goes on with the items that are
\* ready while hooks are pending
ConcatBatch_NoJoin ==
    /\ pc = "mapping"
    /\ \A i \in 1..Len(tasks) : tasks[i].state # "rejected"
    /\ mappedVariants' = mappedVariants
         \o [i \in 1..Len(SelectSeq(tasks, LAMBDA t : t.state = "fulfilled")) |->
               SelectSeq(tasks, LAMBDA t : t.state = "fulfilled")[i].item]
    /\ mappedFrom' = mappedFrom
         \o [i \in 1..Len(SelectSeq(tasks, LAMBDA t : t.state = "fulfilled")) |->
               SelectSeq(tasks, LAMBDA t : t.state = "fulfilled")[i].variant]
    /\ batchIndex' = batchIndex + 1
    /\ pc' = "loop"
    /\ UNCHANGED << regions, catalog, entry, request, args, selectedRegion, plan,
                    productBatch, availabilityPromises, availabilityMap, tasks, returned,
                    response, calls, failedAt, probe,
                    builds >>

\* the bug: the items of the batch are put before those of the earlier batches
ConcatBatch_Prepend ==
    /\ pc = "mapping"
    /\ \A i \in 1..Len(tasks) : tasks[i].state = "fulfilled"
    /\ mappedVariants' = [i \in 1..Len(tasks) |-> tasks[i].item] \o mappedVariants
    /\ mappedFrom' = [i \in 1..Len(tasks) |-> tasks[i].variant] \o mappedFrom
    /\ batchIndex' = batchIndex + 1
    /\ pc' = "loop"
    /\ UNCHANGED << regions, catalog, entry, request, args, selectedRegion, plan,
                    productBatch, availabilityPromises, availabilityMap, tasks, returned,
                    response, calls, failedAt, probe,
                    builds >>

\* mappedVariants = mappedVariants.concat(batchMapped); batchIndex++
ConcatBatch ==
    /\ pc = "mapping"
    /\ \A i \in 1..Len(tasks) : tasks[i].state = "fulfilled"
    /\ mappedVariants' = mappedVariants \o [i \in 1..Len(tasks) |-> tasks[i].item]
    /\ mappedFrom' = mappedFrom \o [i \in 1..Len(tasks) |-> tasks[i].variant]
    /\ batchIndex' = batchIndex + 1
    /\ pc' = "loop"
    /\ UNCHANGED << regions, catalog, entry, request, args, selectedRegion, plan,
                    productBatch, availabilityPromises, availabilityMap, tasks, returned,
                    response, calls, failedAt, probe,
                    builds >>

---------------------------------------------------------------------------
(* The specification of a build *)

Init ==
    /\ \/ /\ entry = "direct"
          /\ request = [country_code |-> Undefined, currency |-> Undefined]
          /\ \/ args \in RegionArgs /\ regions \in RegionLists
                  /\ catalog \in { << >>, << pA >> }
             \/ args \in BatchArgs /\ regions = << r1, r2 >> /\ catalog \in Catalogs
          /\ pc = "build"
       \/ /\ entry \in { "v1xml", "v2json" }
          /\ request \in Requests
          /\ regions \in RegionLists
          /\ catalog \in { << >>, << pA >> }
          /\ args = Undefined
          /\ pc = "route"
    /\ selectedRegion = Undefined
    /\ plan = Undefined
    /\ batchIndex = 0
    /\ productBatch = << >>
    /\ availabilityPromises = << >>
    /\ availabilityMap = << >>
    /\ tasks = << >>
    /\ mappedVariants = << >>
    /\ mappedFrom = << >>
    /\ returned = [status |-> "pending"]
    /\ response = [status |-> "pending"]
    /\ calls = << >>
    /\ failedAt = -1
    /\ probe = [fn |-> "none"]
    /\ builds = << >>

Next ==
    \/ RouteGET
    \/ RouteRespond
    \/ ListRegions
    \/ CountProducts
    \/ ReturnMapped
    \/ FetchBatch
    \/ \E i \in 1..Len(availabilityPromises) : AvailabilityResolves(i)
    \/ \E i \in 1..Len(availabilityPromises) : AvailabilityRejects(i)
    \/ AvailabilityFails
    \/ StartMapping
    \/ \E i \in 1..Len(tasks) : HookResolves(i)
    \/ \E i \in 1..Len(tasks) : HookRejects(i)
    \/ MappingFails
    \/ ConcatBatch

Spec == Init /\ [][Next]_vars

---------------------------------------------------------------------------
(* The GET handlers of feed/products and of feed/products/all *)

LegacyBatchSize == 50

\* the currency parameter the handler reads: currency_code in feed/products,
\* currency in feed/products/all
LegacyCurrency(route, req) == IF route = "products" THEN req.currency_code ELSE req.currency

LegacyRequests ==
    { [currency_code |-> a, currency |-> b] :
        a, b \in { Undefined, Str(<< >>), Str(eur), Str(<< "x", "x", "x" >>), ArrayValue } }

\* the catalogs the handlers are run on
LegacyCatalogs == { << >>, << pA >>, << pB, pC >>, << pD, pC, pB >> }

\* region_id / currency_code of the handler for a non-empty region list, or its 404
LegacyRegion(route, regionList, req) ==
    LET defaultRegion == regionList[1]
        param == LegacyCurrency(route, req)
        success == param = Undefined \/ IsStr(param)
        region == Find(regionList, LAMBDA r : r.currency_code = param.s)
    IN IF success /\ Truthy(param)
       THEN IF region = Undefined THEN NotFound("No region found with currency code")
            ELSE [status |-> 200, region_id |-> region.id,
                  currency_code |-> region.currency_code]
       ELSE [status |-> 200, region_id |-> defaultRegion.id,
             currency_code |-> defaultRegion.currency_code]

\* GET up to the first catalog query: lists the regions and reads defaultRegion.id,
\* which throws for an empty list before the check of regions.length is reached
LegacyGET ==
    /\ pc = "legacy"
    /\ calls' = Append(calls, [op |-> "listRegions", by |-> entry])
    /\ IF regions = << >>
       THEN /\ response' = [status |-> "thrown"]
            /\ pc' = "responded"
            /\ UNCHANGED selectedRegion
       ELSE LET found == LegacyRegion(entry, regions, request)
            IN IF found.status = 404
               THEN /\ response' = found
                    /\ pc' = "responded"
                    /\ UNCHANGED selectedRegion
               ELSE /\ selectedRegion' = [id |-> found.region_id,
                                          currency_code |-> found.currency_code]
                    /\ pc' = IF entry = "products" THEN "legacyQuery" ELSE "legacyCount"
                    /\ UNCHANGED response
    /\ UNCHANGED << regions, catalog, entry, request, args, plan, batchIndex, productBatch,
                    availabilityPromises, availabilityMap, tasks, mappedVariants,
                    mappedFrom, returned, failedAt, probe,
                    builds >>

\* reading variant.calculated_price.<amount> throws when there is no calculated price
HasUnpriced(products) ==
    \E i \in 1..Len(products) : \E j \in 1..Len(products[i].variants) :
        products[i].variants[j].calculated_price.t # "object"

\* the object feed/products maps a variant to; the variants of the catalog have no title
LegacyProductItem(product, variant) ==
    Assign(<< >>,
           << [k |-> kId, v |-> variant.id],
              [k |-> kItemgroupId, v |-> product.id],
              [k |-> kTitle, v |-> Undefined],
              [k |-> kDescription, v |-> product.description],
              [k |-> kLink, v |-> product.handle],
              [k |-> kImageLink, v |-> product.thumbnail],
              [k |-> kPrice, v |-> variant.calculated_price.calculated_amount] >>)

\* feed/products: one query.graph without pagination, the nested map, res.json
LegacyProducts ==
    /\ pc = "legacyQuery"
    /\ calls' = Append(calls, [op |-> "graph", region_id |-> selectedRegion.id,
                               currency_code |-> selectedRegion.currency_code])
    /\ response' =
         IF HasUnpriced(catalog) THEN [status |-> "thrown"]
         ELSE [status |-> 200,
               items |-> [i \in 1..Len(catalog) |->
                            [j \in 1..Len(catalog[i].variants) |->
                               LegacyProductItem(catalog[i], catalog[i].variants[j])]]]
    /\ pc' = "responded"
    /\ UNCHANGED << regions, catalog, entry, request, args, selectedRegion, plan,
                    batchIndex, productBatch, availabilityPromises, availabilityMap, tasks,
                    mappedVariants, mappedFrom, returned, failedAt, probe,
                    builds >>

\* feed/products/all: the count query and the number of batches
LegacyCount ==
    /\ pc = "legacyCount"
    /\ calls' = Append(calls, [op |-> "graph", fields |-> "id"])
    /\ plan' = [totalProducts |-> Len(catalog),
                batches |-> CeilDiv(Len(catalog), LegacyBatchSize)]
    /\ batchIndex' = 0
    /\ pc' = "legacyLoop"
    /\ UNCHANGED << regions, catalog, entry, request, args, selectedRegion, productBatch,
                    availabilityPromises, availabilityMap, tasks, mappedVariants,
                    mappedFrom, returned, response, failedAt, probe,
                    builds >>

\* one iteration up to Promise.all: the batch query, then one availability promise
\* per product, which calls getVariantAvailability when the product has a sales
\* channel and is resolved at once when it has none
LegacyFetchBatch ==
    /\ pc = "legacyLoop" /\ batchIndex < plan.batches
    /\ LET offset == batchIndex * LegacyBatchSize
           batch == Page(catalog, offset, LegacyBatchSize)
           ids(product) == [i \in 1..Len(product.variants) |-> product.variants[i].id.s]
           listed == SelectSeq(batch, LAMBDA product : product.sales_channels # << >>)
       IN /\ productBatch' = batch
          /\ availabilityPromises' =
               [i \in 1..Len(batch) |->
                  IF batch[i].sales_channels = << >>
                  THEN [sales_channel_id |-> << >>, variant_ids |-> ids(batch[i]),
                        state |-> "fulfilled"]
                  ELSE [sales_channel_id |-> batch[i].sales_channels[1],
                        variant_ids |-> ids(batch[i]), state |-> "pending"]]
          /\ calls' = calls
               \o << [op |-> "graph", skip |-> offset, take |-> LegacyBatchSize,
                      region_id |-> selectedRegion.id,
                      currency_code |-> selectedRegion.currency_code] >>
               \o [i \in 1..Len(listed) |->
                     [op |-> "getVariantAvailability",
                      sales_channel_id |-> listed[i].sales_channels[1],
                      variant_ids |-> ids(listed[i])]]
    /\ pc' = "legacyAvailability"
    /\ UNCHANGED << regions, catalog, entry, request, args, selectedRegion, plan,
                    batchIndex, availabilityMap, tasks, mappedVariants, mappedFrom,
                    returned, response, failedAt, probe,
                    builds >>

LegacyAvailabilityResolves(i) ==
    /\ pc = "legacyAvailability" /\ availabilityPromises[i].state = "pending"
    /\ availabilityPromises' = [availabilityPromises EXCEPT ![i].state = "fulfilled"]
    /\ UNCHANGED << regions, catalog, entry, request, args, pc, selectedRegion, plan,
                    batchIndex, productBatch, availabilityMap, tasks, mappedVariants,
                    mappedFrom, returned, response, calls, failedAt, probe,
                    builds >>

LegacyAvailabilityRejects(i) ==
    /\ pc = "legacyAvailability" /\ availabilityPromises[i].state = "pending"
    /\ availabilityPromises' = [availabilityPromises EXCEPT ![i].state = "rejected"]
    /\ UNCHANGED << regions, catalog, entry, request, args, pc, selectedRegion, plan,
                    batchIndex, productBatch, availabilityMap, tasks, mappedVariants,
                    mappedFrom, returned, response, calls, failedAt, probe,
                    builds >>

\* await Promise.all(availabilityPromises) throws: the handler is left by the exception
LegacyAvailabilityFails ==
    /\ pc = "legacyAvailability"
    /\ \E i \in 1..Len(availabilityPromises) : availabilityPromises[i].state = "rejected"
    /\ response' = [status |-> "thrown"]
    /\ pc' = "responded"
    /\ UNCHANGED << regions, catalog, entry, request, args, selectedRegion, plan,
                    batchIndex, productBatch, availabilityPromises, availabilityMap, tasks,
                    mappedVariants, mappedFrom, returned, calls, failedAt, probe,
                    builds >>

\* available[variant.id]?.availability || 0, and 0 for a product without sales channel
LegacyAvailability(promise, variantId) ==
    IF promise.sales_channel_id = << >> THEN 0
    ELSE Availability(AvailabilityResult(promise.sales_channel_id, promise.variant_ids),
                      variantId)

\* every promise of the batch is fulfilled: the products, with the availability
\* of their variants, are appended to allProductsWithAvailability (mappedVariants)
LegacyJoin ==
    /\ pc = "legacyAvailability"
    /\ \A i \in 1..Len(availabilityPromises) : availabilityPromises[i].state = "fulfilled"
    /\ mappedVariants' = mappedVariants
         \o [i \in 1..Len(productBatch) |->
               [product |-> productBatch[i],
                availability |->
                  [j \in 1..Len(productBatch[i].variants) |->
                     LegacyAvailability(availabilityPromises[i],
                                        productBatch[i].variants[j].id.s)]]]
    /\ batchIndex' = batchIndex + 1
    /\ pc' = "legacyLoop"
    /\ UNCHANGED << regions, catalog, entry, request, args, selectedRegion, plan,
                    productBatch, availabilityPromises, availabilityMap, tasks, mappedFrom,
                    returned, response, calls, failedAt, probe,
                    builds >>

\* handleVariantOptions of feed/products/all: no test for Default, no sanitizing
RECURSIVE LegacyOptions(_, _)
LegacyOptions(options, result) ==
    IF options = << >> THEN result
    ELSE LET optionValue == Head(options)
         IN IF Truthy(optionValue.title) /\ Truthy(optionValue.value)
            THEN LegacyOptions(Tail(options),
                               Set(result, toLowerCase(optionValue.title.s), optionValue.value))
            ELSE LegacyOptions(Tail(options), result)

\* the object feed/products/all maps a variant to
LegacyAllItem(product, variant, availability, currencyCode) ==
    LET amount(v) == Str(TemplateString(v) \o << " " >> \o currencyCode)
    IN Assign(
         Assign(
           Assign(<< >>,
             << [k |-> kId, v |-> variant.id],
                [k |-> kItemgroupId, v |-> product.id],
                [k |-> kTitle, v |-> product.title],
                [k |-> kDescription, v |-> product.description],
                [k |-> kLink, v |-> product.handle],
                [k |-> kImageLink, v |-> product.thumbnail],
                [k |-> kPrice, v |-> amount(variant.calculated_price.original_amount)] >>),
           LegacyOptions(variant.options, << >>)),
         << [k |-> kAvailability, v |-> Num(availability)],
            [k |-> kMpn, v |-> variant.sku],
            [k |-> kProductType, v |-> product.type_value],
            [k |-> kSalePrice, v |-> amount(variant.calculated_price.calculated_amount)],
            [k |-> kMaterial, v |-> OrElse(product.material, Str(<< >>))] >>)

\* allProductsWithAvailability.flatMap(product => product.variants.map(...))
RECURSIVE LegacyFlatMap(_, _)
LegacyFlatMap(products, currencyCode) ==
    IF products = << >> THEN << >>
    ELSE LET product == Head(products).product
         IN [j \in 1..Len(product.variants) |->
               LegacyAllItem(product, product.variants[j], Head(products).availability[j],
                             currencyCode)]
            \o LegacyFlatMap(Tail(products), currencyCode)

\* the loop is over: the flatMap and res.json(mappedVariants)
LegacyRespond ==
    /\ pc = "legacyLoop" /\ batchIndex >= plan.batches
    /\ response' =
         IF HasUnpriced(catalog) THEN [status |-> "thrown"]
         ELSE [status |-> 200,
               items |-> LegacyFlatMap(mappedVariants, selectedRegion.currency_code)]
    /\ pc' = "responded"
    /\ UNCHANGED << regions, catalog, entry, request, args, selectedRegion, plan,
                    batchIndex, productBatch, availabilityPromises, availabilityMap, tasks,
                    mappedVariants, mappedFrom, returned, calls, failedAt, probe,
                    builds >>

InitLegacy ==
    /\ entry \in { "products", "productsAll" }
    /\ request \in LegacyRequests
    /\ regions \in RegionLists
    /\ catalog \in LegacyCatalogs
    /\ args = Undefined
    /\ pc = "legacy"
    /\ selectedRegion = Undefined
    /\ plan = Undefined
    /\ batchIndex = 0
    /\ productBatch = << >>
    /\ availabilityPromises = << >>
    /\ availabilityMap = << >>
    /\ tasks = << >>
    /\ mappedVariants = << >>
    /\ mappedFrom = << >>
    /\ returned = [status |-> "pending"]
    /\ response = [status |-> "pending"]
    /\ calls = << >>
    /\ failedAt = -1
    /\ probe = [fn |-> "none"]
    /\ builds = << >>

NextLegacy ==
    \/ LegacyGET
    \/ LegacyProducts
    \/ LegacyCount
    \/ LegacyFetchBatch
    \/ \E i \in 1..Len(availabilityPromises) : LegacyAvailabilityResolves(i)
    \/ \E i \in 1..Len(availabilityPromises) : LegacyAvailabilityRejects(i)
    \/ LegacyAvailabilityFails
    \/ LegacyJoin
    \/ LegacyRespond

SpecLegacy == InitLegacy /\ [][NextLegacy]_vars

---------------------------------------------------------------------------
(* Two calls of buildMappedFeedData in progress on one service instance. A call
   runs from one await to the next without interruption; at an await the other
   call may run. *)

Builds == 1..2

\* the calls the two builds are made with
TwoArgs ==
    { BuildArgs(regionId, Undefined, mode, batchSize, Undefined, Undefined, itemTransform) :
        regionId \in { Undefined, Str(r2.id) },
        mode \in { "json", "xml" },
        batchSize \in { Num(1), Num(2) },
        itemTransform \in { "none", "blank" } }

\* the locals of a call that has not run yet
Locals(a) ==
    [args |-> a, pc |-> "build", selectedRegion |-> Undefined, plan |-> Undefined,
     batchIndex |-> 0, productBatch |-> << >>, availabilityPromises |-> << >>,
     availabilityMap |-> << >>, tasks |-> << >>, returned |-> [status |-> "pending"]]

\* the bug: the accumulator is a field of the service instance, shared by its calls
MappedVariantsOf_Instance(b) == 1

\* let mappedVariants: any[] = [] is a local of the call: each call has its own
MappedVariantsOf(b) == b

InitTwo ==
    /\ regions = << r1, r2 >>
    /\ catalog = << pA, pB, pD >>
    /\ entry = "direct"
    /\ request = [country_code |-> Undefined, currency |-> Undefined]
    /\ args = Undefined
    /\ pc = "idle"
    /\ selectedRegion = Undefined
    /\ plan = Undefined
    /\ batchIndex = 0
    /\ productBatch = << >>
    /\ availabilityPromises = << >>
    /\ availabilityMap = << >>
    /\ tasks = << >>
    /\ mappedVariants = << >>
    /\ mappedFrom = << >>
    /\ returned = [status |-> "pending"]
    /\ response = [status |-> "pending"]
    /\ calls = << >>
    /\ failedAt = -1
    /\ probe = [fn |-> "none"]
    /\ \E a1, a2 \in TwoArgs :
         builds = [options |-> DefaultOptions,
                   locals |-> << Locals(a1), Locals(a2) >>,
                   mappedVariants |-> << << >>, << >> >>]

\* await regionsModule.listRegions(), the empty check and the region selection
TwoListRegions(b) ==
    /\ builds.locals[b].pc = "build"
    /\ builds' = [builds EXCEPT !.locals[b] =
                    IF regions = << >>
                    THEN [@ EXCEPT !.returned = [status |-> "fulfilled", items |-> << >>],
                                   !.pc = "returned"]
                    ELSE [@ EXCEPT !.selectedRegion =
                                       SelectRegion(regions, builds.locals[b].args),
                                   !.pc = "count"]]
    /\ UNCHANGED oneBuildVars

\* await productModule.listAndCountProducts(), the plan and the empty accumulator
TwoCountProducts(b) ==
    /\ builds.locals[b].pc = "count"
    /\ LET p == BatchPlan(Len(catalog), builds.locals[b].args)
       IN builds' = [builds EXCEPT
                       !.locals[b] = [@ EXCEPT !.plan = p, !.batchIndex = p.startBatch,
                                               !.pc = "loop"],
                       !.mappedVariants[MappedVariantsOf(b)] = << >>]
    /\ UNCHANGED oneBuildVars

\* await query.graph of the next batch, and the availability queries it pushes
TwoFetchBatch(b) ==
    /\ builds.locals[b].pc = "loop"
    /\ builds.locals[b].batchIndex <= builds.locals[b].plan.endBatch
    /\ LET l == builds.locals[b]
           batch == Page(catalog, l.batchIndex * l.plan.effectiveBatchSize,
                         l.plan.effectiveBatchSize)
           queries == AvailabilityQueries(batch)
       IN builds' = [builds EXCEPT !.locals[b] =
                       [@ EXCEPT !.productBatch = batch,
                                 !.availabilityPromises =
                                     [i \in 1..Len(queries) |->
                                        [sales_channel_id |-> queries[i].k,
                                         variant_ids |-> queries[i].v,
                                         state |-> "fulfilled"]],
                                 !.availabilityMap = << >>,
                                 !.pc = "availability"]]
    /\ UNCHANGED oneBuildVars

\* await Promise.all(availabilityPromises) resolves: the merge, and the mapping
\* callbacks up to their first await
TwoStartMapping(b) ==
    /\ builds.locals[b].pc = "availability"
    /\ LET l == builds.locals[b]
           map == MergeResults(l.availabilityPromises, << >>)
       IN builds' = [builds EXCEPT !.locals[b] =
                       [@ EXCEPT !.availabilityMap = map,
                                 !.tasks = MapTasks(l.productBatch, map,
                                                    l.selectedRegion.currency_code, l.args),
                                 !.pc = "mapping"]]
    /\ UNCHANGED oneBuildVars

\* the item of a mapping callback when its hook, if it awaits one, has resolved
TaskItem(t, a) ==
    IF t.state = "hook" THEN PostStages(ApplyHook(a.itemTransform, t.item), a) ELSE t.item

\* await Promise.all of the mapping resolves: the concat and batchIndex++
TwoConcatBatch(b) ==
    /\ builds.locals[b].pc = "mapping"
    /\ \A i \in 1..Len(builds.locals[b].tasks) : builds.locals[b].tasks[i].state # "rejected"
    /\ LET l == builds.locals[b]
       IN builds' = [builds EXCEPT
                       !.locals[b] = [@ EXCEPT !.batchIndex = @ + 1, !.pc = "loop"],
                       !.mappedVariants[MappedVariantsOf(b)] =
                           @ \o [i \in 1..Len(l.tasks) |-> TaskItem(l.tasks[i], l.args)]]
    /\ UNCHANGED oneBuildVars

\* an awaited availability query or hook rejects: the call is left by the exception
TwoRejects(b) ==
    /\ \/ /\ builds.locals[b].pc = "availability"
          /\ builds.locals[b].availabilityPromises # << >>
       \/ /\ builds.locals[b].pc = "mapping"
          /\ \E i \in 1..Len(builds.locals[b].tasks) :
                builds.locals[b].tasks[i].state \in { "hook", "rejected" }
    /\ builds' = [builds EXCEPT !.locals[b] =
                    [@ EXCEPT !.returned = [status |-> "rejected"], !.pc = "returned"]]
    /\ UNCHANGED oneBuildVars

\* the loop condition fails: return mappedVariants
TwoReturnMapped(b) ==
    /\ builds.locals[b].pc = "loop"
    /\ builds.locals[b].batchIndex > builds.locals[b].plan.endBatch
    /\ builds' = [builds EXCEPT !.locals[b] =
                    [@ EXCEPT !.returned = [status |-> "fulfilled",
                                            items |-> builds.mappedVariants[MappedVariantsOf(b)]],
                              !.pc = "returned"]]
    /\ UNCHANGED oneBuildVars

NextTwo ==
    \/ \E b \in Builds : TwoListRegions(b)
    \/ \E b \in Builds : TwoCountProducts(b)
    \/ \E b \in Builds : TwoFetchBatch(b)
    \/ \E b \in Builds : TwoStartMapping(b)
    \/ \E b \in Builds : TwoConcatBatch(b)
    \/ \E b \in Builds : TwoRejects(b)
    \/ \E b \in Builds : TwoReturnMapped(b)

SpecTwo == InitTwo /\ [][NextTwo]_vars

---------------------------------------------------------------------------
(* Claims *)

\* the collaborator calls of one kind, in issue order
CallsOf(op) == SelectSeq(calls, LAMBDA c : c.op = op)

BuildStarted == \E i \in 1..Len(calls) : calls[i].op = "listRegions" /\ calls[i].by = "build"

Fulfilled == pc \in { "returned", "responded" } /\ returned.status = "fulfilled"

\* the variant of the catalog with the id
CatalogVariant(variantId) ==
    LET p == CHOOSE i \in 1..Len(catalog) :
                 \E j \in 1..Len(catalog[i].variants) : catalog[i].variants[j].id.s = variantId
        v == CHOOSE j \in 1..Len(catalog[p].variants) :
                 catalog[p].variants[j].id.s = variantId
    IN catalog[p].variants[v]

\* the variant has an original amount in the pricing context: a number
HasOriginalPrice(variant) ==
    /\ variant.calculated_price.t = "object"
    /\ variant.calculated_price.original_amount.t = "number"

\* C1: a variant that has no resolved original price never appears as an item of
\* the feed a build returns, in JSON mode and in XML mode, whatever its batch.
C1_UnpricedNeverMapped ==
    Fulfilled =>
        /\ Len(mappedFrom) = Len(returned.items)
        /\ \A i \in 1..Len(mappedFrom) : HasOriginalPrice(CatalogVariant(mappedFrom[i]))

\* does the string hold one of the two placeholder markers
ContainsDefaultMarker(value) == IsStr(value) /\ (includes(value.s, sDefault) \/ includes(value.s, sdefault))

\* the option values of a variant that carry no marker
KeptOptions(options) == SelectSeq(options, LAMBDA ov : ~ContainsDefaultMarker(ov.value))

Mapped == probe.fn = "mapVariant" /\ probe.applied /\ ~probe.mapped.threw

\* C2: an option value whose value contains "default" or "Default" is absent from
\* the mapping of handleVariantOptions, and with no hook configured the mapping,
\* the item and the item's link are those of the variant without that option
\* value, in JSON mode and in XML mode.
C2_DefaultValuesAbsent ==
    Mapped =>
        LET options == probe.variant.options
            kept == [probe.variant EXCEPT !.options = KeptOptions(options)]
            keptPre == PreItem(DefaultOptions, ProbeProduct(kept), kept,
                               probe.availability, usd, probe.a)
        IN /\ \A i \in 1..Len(options) :
                ContainsDefaultMarker(options[i].value) =>
                    \A j \in 1..Len(probe.variantOptions.obj) :
                        probe.variantOptions.obj[j].v # options[i].value
           /\ probe.variantOptions.obj
                = handleVariantOptions(kept.options, probe.a.mode, probe.a.GoogleMerchant).obj
           /\ probe.mapped.item = PostStages(keptPre.item, probe.a)
           /\ Get(probe.mapped.item, IF probe.a.mode = "xml" /\ probe.a.GoogleMerchant
                                     THEN gPrefix \o kLink ELSE kLink)
                = Link(DefaultOptions, ProbeProduct(kept),
                       handleVariantOptions(kept.options, probe.a.mode,
                                            probe.a.GoogleMerchant).obj)

\* C2 witness: a variant with a "my default" value and a kept option was mapped in XML mode
C2_Witness ==
    /\ Mapped
    /\ probe.a.mode = "xml"
    /\ probe.variant.options =
         << [title |-> Str(<< "S", "i", "z", "e" >>),
             value |-> Str(<< "m", "y", " ", "d", "e", "f", "a", "u", "l", "t" >>)],
            [title |-> Str(<< "7" >>), value |-> Str(<< "M" >>)] >>
    /\ Len(probe.variantOptions.obj) = 1

\* C3: an option whose title is "Default" contributes no key to the mapping and to
\* the item, whatever its value (the README's "Options named Default are ignored").
C3_DefaultTitleIgnored ==
    Mapped =>
        \A i \in 1..Len(probe.variant.options) :
            probe.variant.options[i].title = Str(sDefault) =>
                LET key == OptionKey(sDefault, probe.a.mode, probe.a.GoogleMerchant)
                IN ~HasKey(probe.variantOptions.obj, key) /\ ~HasKey(probe.mapped.item, key)

\* ^[a-z_][a-z0-9_]*$
IsXmlName(s) ==
    /\ s # << >>
    /\ s[1] \in AsciiLower \cup { "_" }
    /\ \A i \in 1..Len(s) : s[i] \in AsciiLower \cup Digits \cup { "_" }

\* C4: sanitizeXmlName is idempotent and its output matches ^[a-z_][a-z0-9_]*$,
\* for every label, the empty one and those starting with a digit included.
C4_SanitizeIdempotent ==
    /\ (probe.fn = "sanitizeXmlName" /\ probe.applied >= 1) => IsXmlName(probe.once)
    /\ (probe.fn = "sanitizeXmlName" /\ probe.applied = 2) => probe.twice = probe.once

\* C4 witness: a label starting with a digit was sanitized twice and got the opt_ prefix
C4_Witness ==
    /\ probe.fn = "sanitizeXmlName" /\ probe.applied = 2
    /\ probe.name = << "7", "Æ" >>
    /\ probe.once = << "o", "p", "t", "_", "7", "a", "e" >>

\* the items of the whole product list fetched and mapped as one batch
SingleBatchItems ==
    LET whole == [i \in 1..Len(AvailabilityQueries(catalog)) |->
                    [sales_channel_id |-> AvailabilityQueries(catalog)[i].k,
                     variant_ids |-> AvailabilityQueries(catalog)[i].v]]
        ts == MapTasks(catalog, MergeResults(whole, << >>), selectedRegion.currency_code, args)
    IN [i \in 1..Len(ts) |->
          IF ts[i].state = "hook"
          THEN PostStages(ApplyHook(args.itemTransform, ts[i].item), args)
          ELSE ts[i].item]

\* C5: the item list a full build (no page) returns is the list mapped from the
\* whole product list as a single batch, for every effective batch size.
C5_BatchInvariance ==
    (Fulfilled /\ plan # Undefined /\ ~IsPage(args.page)) => returned.items = SingleBatchItems

\* C5 witness: a full build over three products in batches of two returned two or more items
C5_Witness ==
    /\ Fulfilled /\ plan # Undefined /\ ~IsPage(args.page)
    /\ Len(catalog) = 3 /\ plan.effectiveBatchSize = 2 /\ plan.batches = 2
    /\ Len(CallsOf("graph")) = 2
    /\ Len(returned.items) >= 2

AnyRejected ==
    \/ \E i \in 1..Len(availabilityPromises) : availabilityPromises[i].state = "rejected"
    \/ \E i \in 1..Len(tasks) : tasks[i].state = "rejected"

\* C6: once an availability query or a hook has rejected, the build never returns
\* an item list (the handler never answers 200), it does not go on to another
\* batch, and no collaborator call is issued any more.
C6_FailureAborts ==
    /\ [](AnyRejected => /\ returned.status # "fulfilled"
                         /\ "items" \notin DOMAIN response
                         /\ pc \in { "availability", "mapping", "returned", "responded" }
                         /\ (pc \in { "returned", "responded" } =>
                                returned.status = "rejected" /\ failedAt = Len(calls)))
    /\ [][AnyRejected => calls' = calls]_vars

\* C6 witness: the build rejected on a hook of the second batch, one batch being mapped already
C6_Witness ==
    /\ pc = "returned" /\ returned.status = "rejected"
    /\ \E i \in 1..Len(tasks) : tasks[i].state = "rejected"
    /\ Len(mappedVariants) > 0
    /\ batchIndex < plan.endBatch

EmptyCatalogBuild == plan # Undefined /\ plan.totalProducts = 0

\* C7 as stated: with a product count of 0 the build fetches no catalog page and
\* issues no availability query, and returns an empty list, page supplied or not.
C7_EmptyCatalogNoFetch ==
    EmptyCatalogBuild =>
        /\ CallsOf("graph") = << >>
        /\ CallsOf("getVariantAvailability") = << >>
        /\ (Fulfilled => returned.items = << >>)

\* C7 amended: with a product count of 0 the build issues no availability query and
\* returns an empty list in both modes; it fetches no catalog page when no page is
\* supplied, and exactly the requested page when a positive page is supplied.
C7_EmptyCatalog ==
    EmptyCatalogBuild =>
        /\ CallsOf("getVariantAvailability") = << >>
        /\ returned.status # "rejected"
        /\ (~IsPage(args.page) => CallsOf("graph") = << >>)
        /\ (pc \in { "returned", "responded" } =>
              /\ returned = [status |-> "fulfilled", items |-> << >>]
              /\ (IsPage(args.page) =>
                    /\ Len(CallsOf("graph")) = 1
                    /\ CallsOf("graph")[1].skip = (args.page.n - 1) * plan.effectiveBatchSize
                    /\ CallsOf("graph")[1].take = plan.effectiveBatchSize))

\* C7 witness: page 2 of an empty catalog was built in XML mode, with one fetch
C7_Witness ==
    /\ EmptyCatalogBuild /\ Fulfilled
    /\ args.mode = "xml" /\ args.page = Num(2)
    /\ Len(CallsOf("graph")) = 1

\* a region has the currency
CurrencyKnown(currency) ==
    IsStr(currency) /\ \E i \in 1..Len(regions) : regions[i].currency_code = currency.s

\* a country of a region has the code as iso_2 or iso_3, whatever the case
CountryKnown(code) ==
    \E i \in 1..Len(regions) :
        /\ regions[i].countries.t = "array"
        /\ \E j \in 1..Len(regions[i].countries.items) :
             LET c == regions[i].countries.items[j]
             IN toLowerCase(code.s) \in { toLowerCase(c.iso_2.s), toLowerCase(c.iso_3.s) }

\* the handler answered 404 and nothing but its own listRegions was called
Answered404 ==
    /\ pc \in { "route", "responded" }
    /\ (pc = "responded" =>
          /\ "message" \in DOMAIN response /\ response.status = 404
          /\ calls = << [op |-> "listRegions", by |-> entry] >>)

\* C8 as stated: a request whose currency or country_code matches no region is
\* answered 404 before the build is invoked.
C8_UnmatchedIs404 ==
    (/\ entry \in { "v1xml", "v2json" }
     /\ \/ IsStr(request.currency) /\ Truthy(request.currency)
           /\ ~CurrencyKnown(request.currency)
        \/ IsStr(request.country_code) /\ Truthy(request.country_code)
           /\ ~CountryKnown(request.country_code))
    => Answered404

\* C8 amended: a request that passes the schema, whose non-empty country_code
\* matches no region, or which has no country_code and whose non-empty currency
\* matches no region, is answered 404 before the build is invoked: no product
\* count, no catalog fetch and no availability query occurs.
C8_UnmatchedSelectorIs404 ==
    (/\ entry \in { "v1xml", "v2json" }
     /\ request.currency.t \in { "undefined", "string" }
     /\ request.country_code.t \in { "undefined", "string" }
     /\ \/ Truthy(request.country_code) /\ ~CountryKnown(request.country_code)
        \/ /\ ~Truthy(request.country_code)
           /\ Truthy(request.currency) /\ ~CurrencyKnown(request.currency))
    => Answered404

\* C8 witness: the v1 XML handler answered 404 for a currency no region has
C8_Witness ==
    /\ entry = "v1xml" /\ pc = "responded"
    /\ regions = << r1, r2 >>
    /\ request = [country_code |-> Undefined, currency |-> Str(<< "x", "x", "x" >>)]
    /\ response = NotFound("No region found with currency code")
    /\ Len(calls) = 1

\* C9 as stated: a build started on an empty region list fails instead of
\* returning a feed, and issues no product count and no catalog fetch.
C9_NoRegionsFails ==
    (regions = << >> /\ BuildStarted) =>
        /\ returned.status # "fulfilled"
        /\ CallsOf("listAndCountProducts") = << >>
        /\ CallsOf("graph") = << >>

\* C9 amended: on an empty region list buildMappedFeedData does not fail, it
\* returns an empty item list; the route handlers answer 404 "No regions found"
\* without starting a build; no product count and no catalog fetch is issued.
C9_NoRegions ==
    regions = << >> =>
        /\ CallsOf("listAndCountProducts") = << >>
        /\ CallsOf("graph") = << >>
        /\ returned.status # "rejected"
        /\ (entry = "direct" /\ pc = "returned" =>
              returned = [status |-> "fulfilled", items |-> << >>])
        /\ (entry # "direct" => ~BuildStarted)
        /\ (entry # "direct" /\ pc = "responded" => response = NotFound("No regions found"))

\* C9 witness: a direct build on an empty region list returned the empty list
C9_Witness ==
    /\ regions = << >> /\ entry = "direct" /\ pc = "returned"
    /\ BuildStarted
    /\ returned = [status |-> "fulfilled", items |-> << >>]

\* the caller names a currency no region has, and no region by id
UnmatchedCurrencyArgs ==
    /\ entry = "direct" /\ regions # << >>
    /\ Truthy(args.currencyCode) /\ ~CurrencyKnown(args.currencyCode)
    /\ ~(Truthy(args.regionId) /\ \E i \in 1..Len(regions) : regions[i].id = args.regionId.s)

\* the items' price fields
PriceOf(item) == Get(item, IF args.mode = "xml" /\ args.GoogleMerchant
                           THEN gPrefix \o kPrice ELSE kPrice)

EndsWith(s, suffix) ==
    Len(s) >= Len(suffix) /\ SubSeq(s, Len(s) - Len(suffix) + 1, Len(s)) = suffix

\* C10 as stated: a build given a currencyCode that matches no region (and no
\* matching regionId) fails; it never prices the feed in another region's currency.
C10_UnmatchedCurrencyFails ==
    UnmatchedCurrencyArgs =>
        /\ selectedRegion = Undefined
        /\ CallsOf("graph") = << >>
        /\ returned.status # "fulfilled"

\* C10 amended: a build given a currencyCode that matches no region (and no
\* matching regionId) does not fail on that account: it selects the first region
\* of the list, and every catalog fetch and every price of the feed is in that
\* region's currency.
C10_UnmatchedCurrencyFallsBack ==
    (UnmatchedCurrencyArgs /\ pc # "build") =>
        /\ selectedRegion = regions[1]
        /\ \A i \in 1..Len(CallsOf("graph")) :
              /\ CallsOf("graph")[i].region_id = regions[1].id
              /\ CallsOf("graph")[i].currency_code = regions[1].currency_code
        /\ \A i \in 1..Len(mappedVariants) :
              EndsWith(PriceOf(mappedVariants[i]).s,
                       << " " >> \o toUpperCase(regions[1].currency_code))
        /\ (returned.status = "rejected" => AnyRejected)

\* C10 witness: asked for currency xxx, the build returned an item priced in USD
C10_Witness ==
    /\ UnmatchedCurrencyArgs /\ Fulfilled
    /\ regions = << r1, r2 >>
    /\ args.currencyCode = Str(<< "x", "x", "x" >>)
    /\ Len(returned.items) = 1
    /\ PriceOf(returned.items[1]) = Str(<< "1", "0", "0", "0", " ", "U", "S", "D" >>)

\* the positions of the regions with the caller's regionId / the caller's currencyCode
WithId == { i \in 1..Len(regions) : IsStr(args.regionId) /\ regions[i].id = args.regionId.s }
WithCurrency ==
    { i \in 1..Len(regions) :
        IsStr(args.currencyCode) /\ regions[i].currency_code = args.currencyCode.s }

First(S) == CHOOSE i \in S : \A j \in S : i <= j

\* C11: the selected region is the region with the caller's regionId if there is
\* one, else the first region with the caller's currencyCode, else the first of
\* the list; a regionId wins over a currencyCode that names another region.
C11_SelectionPrecedence ==
    (entry = "direct" /\ selectedRegion # Undefined) =>
        selectedRegion = IF WithId # {} THEN regions[First(WithId)]
                         ELSE IF WithCurrency # {} THEN regions[First(WithCurrency)]
                         ELSE regions[1]

\* C11 witness: regionId names r2 and currencyCode names r1; the build fetched for r2
C11_Witness ==
    /\ entry = "direct" /\ regions = << r1, r2 >>
    /\ args.regionId = Str(r2.id) /\ args.currencyCode = Str(usd)
    /\ selectedRegion = r2
    /\ Len(CallsOf("graph")) = 1

SalePriceOf(item) == Get(item, IF args.mode = "xml" /\ args.GoogleMerchant
                               THEN gPrefix \o kSalePrice ELSE kSalePrice)

\* the items mapped so far: those appended and those of the batch being mapped
ItemsSoFar ==
    mappedVariants
    \o [i \in 1..Len(SelectSeq(tasks, LAMBDA t : t.state # "rejected")) |->
          SelectSeq(tasks, LAMBDA t : t.state # "rejected")[i].item]

\* every fetch, every price and every hook context of the build is for the region
PricedFor(region) ==
    /\ \A i \in 1..Len(CallsOf("graph")) :
          /\ CallsOf("graph")[i].region_id = region.id
          /\ CallsOf("graph")[i].currency_code = region.currency_code
    /\ \A i \in 1..Len(CallsOf("itemTransform")) :
          /\ CallsOf("itemTransform")[i].regionId = region.id
          /\ CallsOf("itemTransform")[i].currencyCode = region.currency_code
    /\ pc \in { "mapping", "loop", "returned", "responded" } =>
          \A i \in 1..Len(ItemsSoFar) :
             /\ EndsWith(PriceOf(ItemsSoFar[i]).s, << " " >> \o toUpperCase(region.currency_code))
             /\ EndsWith(SalePriceOf(ItemsSoFar[i]).s,
                         << " " >> \o toUpperCase(region.currency_code))

\* C12: within one build the region id and the currency used for pricing are those
\* of one and the same region of the list, also when the caller's regionId and
\* currencyCode belong to different regions; every catalog fetch, every price
\* string and every hook context of the build uses that pair.
C12_OnePricingPair ==
    (BuildStarted /\ regions # << >>) =>
        \E r \in 1..Len(regions) : PricedFor(regions[r])

\* C12 witness: regionId names r2 and currencyCode names usd of r1; the hook was
\* called for r2 and eur, and the item returned is priced in EUR
C12_Witness ==
    /\ Fulfilled /\ regions = << r1, r2 >>
    /\ args.regionId = Str(r2.id) /\ args.currencyCode = Str(usd)
    /\ Len(CallsOf("graph")) = 1
    /\ CallsOf("itemTransform") =
         << [op |-> "itemTransform", variant |-> vA1, regionId |-> r2.id,
             currencyCode |-> eur] >>
    /\ Len(returned.items) = 1
    /\ PriceOf(returned.items[1]) = Str(<< "1", "0", "0", "0", " ", "E", "U", "R" >>)

\* the least q with q * d >= n
CeilOf(n, d) == CHOOSE q \in 0..n : q * d >= n /\ \A p \in 0..(q - 1) : p * d < n

\* the (skip, take) of the catalog fetches issued so far
FetchesSoFar ==
    [i \in 1..Len(CallsOf("graph")) |->
       [skip |-> CallsOf("graph")[i].skip, take |-> CallsOf("graph")[i].take]]

\* the fetches of a build of the catalog with the batch size
ExpectedFetches(size) ==
    IF IsNum(args.page) /\ args.page.n >= 1
    THEN << [skip |-> (args.page.n - 1) * size, take |-> size] >>
    ELSE [k \in 1..CeilOf(Len(catalog), size) |-> [skip |-> (k - 1) * size, take |-> size]]

IsPrefix(s, t) == Len(s) <= Len(t) /\ SubSeq(t, 1, Len(s)) = s

\* the batches still to be fetched or being processed
BatchesLeft == IF batchIndex > plan.endBatch THEN 0 ELSE plan.endBatch + 1 - batchIndex

Unsettled(promises, state) == Len(SelectSeq(promises, LAMBDA q : q.state = state))

\* the number of variants of the catalog
RECURSIVE VariantCount(_)
VariantCount(products) ==
    IF products = << >> THEN 0
    ELSE Len(Head(products).variants) + VariantCount(Tail(products))

\* more than the steps of one batch: its queries and its hooks settle one by one
BatchSteps == VariantCount(catalog) + Len(catalog) + 4

\* a bound on the number of steps the build and its handler can still take
StepsLeft ==
    CASE pc = "route" -> (Len(catalog) + 1) * BatchSteps + 5
      [] pc = "build" -> (Len(catalog) + 1) * BatchSteps + 4
      [] pc = "count" -> (Len(catalog) + 1) * BatchSteps + 3
      [] pc = "loop" -> BatchesLeft * BatchSteps + 2
      [] pc = "availability" ->
            (BatchesLeft - 1) * BatchSteps + VariantCount(catalog) + 4
               + Unsettled(availabilityPromises, "pending")
      [] pc = "mapping" -> (BatchesLeft - 1) * BatchSteps + 3 + Unsettled(tasks, "hook")
      [] pc = "returned" -> 1
      [] pc = "responded" -> 0

\* C13: with a 1-based page the build issues exactly one catalog fetch, at skip
\* (page - 1) * size with take size; with no page it issues exactly
\* ceil(totalCount / size) fetches at skip 0, size, 2 * size, ... in increasing
\* order with take size each; and then it terminates: every step of the build
\* lowers a bound on the steps left, and a build that returns has issued them all.
C13_FetchSequence ==
    /\ [](plan # Undefined =>
            /\ IsPrefix(FetchesSoFar, ExpectedFetches(plan.effectiveBatchSize))
            /\ (Fulfilled => FetchesSoFar = ExpectedFetches(plan.effectiveBatchSize)))
    /\ [][StepsLeft' < StepsLeft /\ StepsLeft' >= 0]_vars

\* C13 witness: a full build of three products in batches of one returned after
\* the fetches at skip 0, 1 and 2
C13_Witness ==
    /\ Fulfilled /\ Len(catalog) = 3 /\ args.page = Undefined
    /\ FetchesSoFar = << [skip |-> 0, take |-> 1], [skip |-> 1, take |-> 1],
                         [skip |-> 2, take |-> 1] >>

PageRequested == IsNum(args.page) /\ args.page.n >= 1

\* every catalog fetch issued so far takes size products
EveryFetchTakes(size) == \A i \in 1..Len(CallsOf("graph")) : CallsOf("graph")[i].take = size

\* C14 as stated: the batch size of every catalog fetch is 50 for a full feed and
\* the caller's pageSize only when a page is requested, and is at least 1.
C14_FiftyOrPageSize ==
    plan # Undefined =>
        /\ plan.effectiveBatchSize =
              IF PageRequested /\ IsNum(args.pageSize) THEN args.pageSize.n ELSE 50
        /\ plan.effectiveBatchSize >= 1
        /\ EveryFetchTakes(plan.effectiveBatchSize)

\* the size the arguments ask for: pageSize if given, else batchSize if given, else 50
RequestedSize ==
    IF IsNum(args.pageSize) THEN args.pageSize.n
    ELSE IF IsNum(args.batchSize) THEN args.batchSize.n
    ELSE 50

\* C14 amended: the batch size of every catalog fetch of a build is the caller's
\* pageSize when one is given (with or without a page), else the caller's
\* batchSize when one is given, else 50, and 1 when that number is below 1; for
\* integer arguments it is an integer of at least 1, so the batch count is at
\* most the product count and the build issues at most max(1, count) fetches.
C14_EffectiveBatchSize ==
    plan # Undefined =>
        /\ plan.effectiveBatchSize = IF RequestedSize >= 1 THEN RequestedSize ELSE 1
        /\ plan.effectiveBatchSize \in Nat /\ plan.effectiveBatchSize >= 1
        /\ EveryFetchTakes(plan.effectiveBatchSize)
        /\ plan.batches \in 0..Len(catalog)
        /\ plan.batches * plan.effectiveBatchSize >= Len(catalog)
        /\ Len(CallsOf("graph")) <= (IF Len(catalog) = 0 THEN 1 ELSE Len(catalog))

\* C14 witness: a full feed (no page) of three products with pageSize 2 returned
\* after two fetches of two products
C14_Witness ==
    /\ Fulfilled /\ Len(catalog) = 3
    /\ args.page = Undefined /\ args.pageSize = Num(2) /\ args.batchSize = Undefined
    /\ plan.effectiveBatchSize = 2
    /\ FetchesSoFar = << [skip |-> 0, take |-> 2], [skip |-> 2, take |-> 2] >>

StartsWith(s, prefix) == Len(s) >= Len(prefix) /\ SubSeq(s, 1, Len(prefix)) = prefix

\* C15: every item the XML endpoint GET /feed/products-xml answers with has all
\* its fields, options included, under keys that start with g:.
C15_XmlEndpointPrefixed ==
    (entry = "v1xml" /\ pc = "responded" /\ "items" \in DOMAIN response) =>
        \A i \in 1..Len(response.items) :
            \A j \in 1..Len(response.items[i]) :
                StartsWith(response.items[i][j].k, << "g", ":" >>)

\* the quantity the lookup table of the batch holds for the variant, 0 without entry
LookedUp(variantId) ==
    IF \E j \in 1..Len(availabilityMap) : availabilityMap[j].k = variantId
    THEN availabilityMap[CHOOSE j \in 1..Len(availabilityMap) :
                            availabilityMap[j].k = variantId].v
    ELSE 0

\* the product of the catalog that has the variant
CatalogProductOf(variantId) ==
    catalog[CHOOSE i \in 1..Len(catalog) :
               \E j \in 1..Len(catalog[i].variants) : catalog[i].variants[j].id.s = variantId]

\* the quantity the inventory returns for the variant in its product's first sales
\* channel; a product in no sales channel is not looked up
StockOf(variantId) ==
    IF CatalogProductOf(variantId).sales_channels = << >> THEN 0
    ELSE Inventory(CatalogProductOf(variantId).sales_channels[1], variantId)

AvailabilityOf(item) == Get(item, IF args.mode = "xml" /\ args.GoogleMerchant
                                  THEN gPrefix \o kAvailability ELSE kAvailability)

\* the availability field of the item renders the quantity in the build's mode
RendersQuantity(item, quantity) ==
    /\ HasKey(item, IF args.mode = "xml" /\ args.GoogleMerchant
                    THEN gPrefix \o kAvailability ELSE kAvailability)
    /\ IF args.mode = "xml"
       THEN AvailabilityOf(item) = Str(IF quantity > 0
                                       THEN << "i", "n", " ", "s", "t", "o", "c", "k" >>
                                       ELSE << "o", "u", "t", " ", "o", "f", " ",
                                               "s", "t", "o", "c", "k" >>)
       ELSE AvailabilityOf(item) = Num(quantity)

\* C16: the availability of a mapped variant is the quantity the batch's
\* availability lookup returned for its id, or 0 without entry; the XML field is
\* "in stock" exactly when it is above 0, else "out of stock"; the JSON field is
\* the integer and is present also when it is 0.
C16_AvailabilityField ==
    /\ pc = "mapping" =>
          /\ \A q \in 1..Len(availabilityPromises) :
                \A k \in 1..Len(availabilityPromises[q].variant_ids) :
                   LookedUp(availabilityPromises[q].variant_ids[k]) =
                      Inventory(availabilityPromises[q].sales_channel_id,
                                availabilityPromises[q].variant_ids[k])
          /\ \A i \in 1..Len(tasks) :
                tasks[i].state # "rejected" =>
                   RendersQuantity(tasks[i].item, LookedUp(tasks[i].variant))
    /\ \A i \in 1..Len(mappedVariants) :
          RendersQuantity(mappedVariants[i], StockOf(mappedFrom[i]))

\* C16 witness: a JSON build returned the item of vA1 with availability 3 and the
\* item of vC1, which has no entry in the lookup, with availability 0
C16_Witness ==
    /\ Fulfilled /\ args.mode = "json"
    /\ \E i, j \in 1..Len(returned.items) :
          /\ mappedFrom[i] = vA1 /\ Get(returned.items[i], kAvailability) = Num(3)
          /\ mappedFrom[j] = vC1 /\ Get(returned.items[j], kAvailability) = Num(0)

\* the item of the probed variant in a mode, with no hook
ProbeItem(mode, GoogleMerchant) ==
    PostStages(PreItem(DefaultOptions, ProbeProduct(probe.variant), probe.variant,
                       probe.availability, usd, MapArgs(mode, GoogleMerchant)).item,
               MapArgs(mode, GoogleMerchant))

\* C17: the item built in XML mode with the namespace enabled carries the fields
\* of the item built in JSON mode, each with the same value under the g: key of
\* its name, and no other field, apart from availability, which it renders as
\* "in stock" / "out of stock".
C17_XmlMirrorsJson ==
    (probe.applied /\ ~probe.mapped.threw) =>
        LET json == ProbeItem("json", FALSE)
            xml == ProbeItem("xml", TRUE)
        IN /\ \A i \in 1..Len(json) :
                 json[i].k # kAvailability =>
                    /\ HasKey(xml, << "g", ":" >> \o json[i].k)
                    /\ Get(xml, << "g", ":" >> \o json[i].k) = json[i].v
           /\ \A i \in 1..Len(xml) : HasKey(json, SubSeq(xml[i].k, 3, Len(xml[i].k)))
           /\ Get(xml, << "g", ":" >> \o kAvailability)
                 = Str(IF probe.availability > 0 THEN sInStock ELSE sOutOfStock)

\* the variant passes the filter of the mapping: its original amount is not undefined
PassesPriceFilter(variant) ==
    /\ variant.calculated_price.t = "object"
    /\ variant.calculated_price.original_amount.t # "undefined"

\* the ids of the filtered variants of the products: product by product, each
\* product's variants in listed order
RECURSIVE VariantIdsInOrder(_)
VariantIdsInOrder(products) ==
    IF products = << >> THEN << >>
    ELSE LET kept == SelectSeq(Head(products).variants, PassesPriceFilter)
         IN [i \in 1..Len(kept) |-> kept[i].id.s] \o VariantIdsInOrder(Tail(products))

\* the products a build fetches: the requested page, or the whole catalog
FetchedProducts ==
    IF PageRequested
    THEN SubSeq(catalog, (args.page.n - 1) * plan.effectiveBatchSize + 1,
                IF args.page.n * plan.effectiveBatchSize <= Len(catalog)
                THEN args.page.n * plan.effectiveBatchSize ELSE Len(catalog))
    ELSE catalog

IdOf(item) == Get(item, IF args.mode = "xml" /\ args.GoogleMerchant
                        THEN gPrefix \o kId ELSE kId).s

\* C18: the returned items are in catalog fetch order, batches in increasing
\* offset, products in fetched order, the priced variants of a product in listed
\* order, whatever the order in which the hooks of a batch complete: the item of
\* a variant keeps the position of the variant while other hooks are pending.
C18_FetchOrder ==
    /\ (Fulfilled /\ plan # Undefined) =>
          [i \in 1..Len(returned.items) |-> IdOf(returned.items[i])]
             = VariantIdsInOrder(FetchedProducts)
    /\ pc = "mapping" =>
          /\ [i \in 1..Len(tasks) |-> tasks[i].variant] = VariantIdsInOrder(productBatch)
          /\ \A i \in 1..Len(tasks) :
                tasks[i].state = "fulfilled" => IdOf(tasks[i].item) = tasks[i].variant
          /\ IsPrefix([i \in 1..Len(mappedVariants) |-> IdOf(mappedVariants[i])]
                         \o VariantIdsInOrder(productBatch),
                      VariantIdsInOrder(FetchedProducts))

\* C18 witness: in the second batch of a build the hook of the second variant of
\* a product has completed and the hook of the first is still pending
C18_Witness ==
    /\ pc = "mapping" /\ Len(mappedVariants) > 0
    /\ Len(tasks) >= 2
    /\ tasks[1].variant = vC1 /\ tasks[1].state = "hook"
    /\ tasks[2].variant = vC2 /\ tasks[2].state = "fulfilled"

\* the step issues a catalog fetch
FetchIssued ==
    Len(SelectSeq(calls', LAMBDA c : c.op = "graph")) > Len(CallsOf("graph"))

\* the availability queries and the mapping tasks of the batch have all completed
\* and the items of the tasks are the last ones appended
BatchCompleted ==
    /\ \A i \in 1..Len(availabilityPromises) : availabilityPromises[i].state = "fulfilled"
    /\ \A i \in 1..Len(tasks) : tasks[i].state = "fulfilled"
    /\ Len(tasks) <= Len(mappedVariants)
    /\ SubSeq(mappedVariants, Len(mappedVariants) - Len(tasks) + 1, Len(mappedVariants))
          = [i \in 1..Len(tasks) |-> tasks[i].item]

\* the batches fetched and not yet appended
InFlight == Len(CallsOf("graph")) - (batchIndex - plan.startBatch)

\* C19: the catalog fetch of a batch is issued only after every availability
\* query and every mapping task (hook included) of the batch before it has
\* completed and its items were appended; at no time are two batches in flight.
C19_BatchesInSequence ==
    /\ [][FetchIssued => pc = "loop" /\ BatchCompleted /\ InFlight = 0]_vars
    /\ [](plan # Undefined =>
            /\ InFlight \in { 0, 1 }
            /\ (pc \in { "availability", "mapping" } => InFlight = 1)
            /\ (pc = "loop" => InFlight = 0))

\* C19 witness: the second batch was fetched after the two hooks of the first
\* batch had completed and their items were appended
C19_Witness ==
    /\ pc = "availability" /\ Len(CallsOf("graph")) = 2
    /\ Len(tasks) = 2 /\ BatchCompleted
    /\ Len(CallsOf("itemTransform")) = 2
    /\ Len(mappedVariants) = 2

\* the step starts the mapping of a batch: tasks are created or a hook is called
MappingStarts ==
    \/ [i \in 1..Len(tasks') |-> tasks'[i].variant] # [i \in 1..Len(tasks) |-> tasks[i].variant]
    \/ Len(SelectSeq(calls', LAMBDA c : c.op = "itemTransform")) > Len(CallsOf("itemTransform"))

\* the lookup table has an entry for every variant id of every query of the batch
Merged(table) ==
    \A q \in 1..Len(availabilityPromises) :
        \A k \in 1..Len(availabilityPromises[q].variant_ids) :
            \E j \in 1..Len(table) : table[j].k = availabilityPromises[q].variant_ids[k]

AllQueriesIn(state) ==
    \A i \in 1..Len(availabilityPromises) : availabilityPromises[i].state = state

\* the calls issued since the last catalog fetch, the fetch included
RECURSIVE SinceLastFetch(_)
SinceLastFetch(log) ==
    IF log = << >> THEN << >>
    ELSE IF log[Len(log)].op = "graph" THEN << log[Len(log)] >>
    ELSE Append(SinceLastFetch(SubSeq(log, 1, Len(log) - 1)), log[Len(log)])

\* C20: within a batch all availability queries are issued before any of them is
\* awaited, and no variant of the batch is mapped and no hook is called until
\* every availability query of the batch has completed and its entries are in
\* the lookup table.
C20_AvailabilityJoinedFirst ==
    /\ [][FetchIssued =>
            /\ \A i \in 1..Len(availabilityPromises') :
                  availabilityPromises'[i].state = "pending"
            /\ Len(SelectSeq(calls', LAMBDA c : c.op = "getVariantAvailability"))
                  = Len(CallsOf("getVariantAvailability")) + Len(availabilityPromises')]_vars
    /\ [][MappingStarts =>
            /\ pc = "availability" /\ AllQueriesIn("fulfilled")
            /\ Merged(availabilityMap')]_vars
    /\ [](pc = "availability" =>
            /\ Len(SinceLastFetch(calls)) = 1 + Len(availabilityPromises)
            /\ \A i \in 1..Len(availabilityPromises) :
                  /\ SinceLastFetch(calls)[i + 1].op = "getVariantAvailability"
                  /\ SinceLastFetch(calls)[i + 1].sales_channel_id
                        = availabilityPromises[i].sales_channel_id)
    /\ [](pc = "mapping" => AllQueriesIn("fulfilled") /\ Merged(availabilityMap))

\* C20 witness: the mapping of a batch with two sales-channel queries has started,
\* both queries being fulfilled and merged
C20_Witness ==
    /\ pc = "mapping" /\ Len(availabilityPromises) = 2
    /\ AllQueriesIn("fulfilled") /\ Merged(availabilityMap)
    /\ Len(tasks) >= 2
    /\ LookedUp(vA1) = 3 /\ LookedUp(vB1) = 5

\* the first sales channels of the products of the batch that have variants
FirstChannels ==
    { productBatch[i].sales_channels[1] :
        i \in { j \in 1..Len(productBatch) :
                  productBatch[j].sales_channels # << >> /\ productBatch[j].variants # << >> } }

\* the ids of all variants of the products of the batch whose first channel it is,
\* in batch order
RECURSIVE VariantIdsOfChannel(_, _)
VariantIdsOfChannel(products, scId) ==
    IF products = << >> THEN << >>
    ELSE (IF Head(products).sales_channels # << >> /\ Head(products).sales_channels[1] = scId
          THEN [i \in 1..Len(Head(products).variants) |-> Head(products).variants[i].id.s]
          ELSE << >>)
         \o VariantIdsOfChannel(Tail(products), scId)

\* C21: per batch exactly one availability query is issued per distinct first
\* sales channel that has a variant id, with all variant ids, priced or not, of
\* the products whose first channel it is; a product in no sales channel is in no
\* query and its variants are mapped with quantity 0.
C21_QueriesByFirstChannel ==
    pc \in { "availability", "mapping" } =>
        /\ { availabilityPromises[i].sales_channel_id : i \in 1..Len(availabilityPromises) }
              = FirstChannels
        /\ Len(availabilityPromises) = Cardinality(FirstChannels)
        /\ \A i \in 1..Len(availabilityPromises) :
              availabilityPromises[i].variant_ids
                 = VariantIdsOfChannel(productBatch, availabilityPromises[i].sales_channel_id)
        /\ Len(SinceLastFetch(calls)) >= 1 + Len(availabilityPromises)
        /\ \A i \in 1..Len(availabilityPromises) :
              SinceLastFetch(calls)[i + 1] =
                 [op |-> "getVariantAvailability",
                  sales_channel_id |-> availabilityPromises[i].sales_channel_id,
                  variant_ids |-> availabilityPromises[i].variant_ids]
        /\ \A p \in 1..Len(productBatch) :
              productBatch[p].sales_channels = << >> =>
                 \A v \in 1..Len(productBatch[p].variants) :
                    /\ \A i \in 1..Len(availabilityPromises) :
                          \A k \in 1..Len(availabilityPromises[i].variant_ids) :
                             availabilityPromises[i].variant_ids[k]
                                # productBatch[p].variants[v].id.s
                    /\ pc = "mapping" =>
                          \A t \in 1..Len(tasks) :
                             (tasks[t].variant = productBatch[p].variants[v].id.s
                                /\ tasks[t].state # "rejected")
                             => RendersQuantity(tasks[t].item, 0)

\* C21 witness: a batch of pA, pB and pD is being mapped after two queries, the
\* one of sc1 carrying the three variant ids of pA and pD, the one of sc2 that of pB
C21_Witness ==
    /\ pc = "mapping" /\ productBatch = << pA, pB, pD >>
    /\ Len(availabilityPromises) = 2
    /\ availabilityPromises[1].sales_channel_id = sc1
    /\ availabilityPromises[1].variant_ids = << vA1, vA2, vD1 >>
    /\ availabilityPromises[2].sales_channel_id = sc2
    /\ availabilityPromises[2].variant_ids = << vB1 >>

\* a field list that is configured: an array with at least one name
Configured(fields) == fields.t = "array" /\ Len(fields.items) > 0

Names(fields) == IF Configured(fields) THEN { fields.items[i] : i \in 1..Len(fields.items) } ELSE { }

IsEmptyValue(v) == v = Null \/ v = Undefined \/ v = Str(<< >>)

\* the entries of the hook's result that the include list, the exclude list and
\* the strip let through
SurvivesStages(e) ==
    /\ Configured(probe.a.includeFields) => e.k \in Names(probe.a.includeFields)
    /\ e.k \notin Names(probe.a.excludeFields)
    /\ ~IsEmptyValue(e.v)

\* C22: the stages run in the order hook, include, exclude, strip: the returned
\* item is the hook's result restricted, in its own key order, to the keys that
\* are in the include list (when one is configured), not in the exclude list and
\* whose value is not null, undefined or ""; a key in both lists is absent
C22_StagesInOrder ==
    (probe.fn = "stages" /\ Len(probe.trace) = 4) =>
        /\ probe.trace[4] = SelectSeq(probe.trace[1], SurvivesStages)
        /\ probe.trace[4] = PostStages(probe.trace[1], probe.a)
        /\ \A i \in 1..Len(probe.trace[4]) :
              /\ ~IsEmptyValue(probe.trace[4][i].v)
              /\ probe.trace[4][i].k \notin
                    (Names(probe.a.includeFields) \cap Names(probe.a.excludeFields))

\* C22 witness: the hook blanked title and added extra, the include list names
\* extra, link, id and title, the exclude list brand and extra: id and link are
\* returned, in the item's order
C22_Witness ==
    /\ probe.fn = "stages" /\ Len(probe.trace) = 4
    /\ probe.a.itemTransform = "blank"
    /\ probe.a.includeFields = Arr(<< kExtra, kLink, kId, kTitle >>)
    /\ probe.a.excludeFields = Arr(<< kBrand, kExtra >>)
    /\ HasKey(probe.trace[1], kExtra) /\ Get(probe.trace[1], kTitle) = Str(<< >>)
    /\ [i \in 1..Len(probe.trace[4]) |-> probe.trace[4][i].k] = << kId, kLink >>

\* C30: an empty include list retains every key, an empty exclude list removes
\* none; only a non-empty include list restricts the keys
C30_EmptyListsNotConfigured ==
    probe.fn = "stages" =>
        /\ (Len(probe.trace) >= 2 /\ ~Configured(probe.a.includeFields))
               => probe.trace[2] = probe.trace[1]
        /\ (Len(probe.trace) >= 2 /\ Configured(probe.a.includeFields))
               => Keys(probe.trace[2]) = Keys(probe.trace[1]) \cap Names(probe.a.includeFields)
        /\ (Len(probe.trace) >= 3 /\ ~Configured(probe.a.excludeFields))
               => probe.trace[3] = probe.trace[2]

\* C30 witness: both lists are empty arrays and the item still has the key the
\* hook added, and every key of the mapped item, after the exclude stage
C30_Witness ==
    /\ probe.fn = "stages" /\ Len(probe.trace) = 4
    /\ probe.a.includeFields = Arr(<< >>) /\ probe.a.excludeFields = Arr(<< >>)
    /\ probe.a.itemTransform = "blank"
    /\ HasKey(probe.trace[3], kExtra) /\ HasKey(probe.trace[3], kBrand)
    /\ Len(probe.trace[3]) = Len(probe.trace[1])

\* the URLs of a list that are set, differ from the thumbnail and did not occur
\* earlier in the list, in list order
RECURSIVE DistinctOthers(_, _, _)
DistinctOthers(images, thumbnail, seen) ==
    IF images = << >> THEN << >>
    ELSE IF Head(images) = Undefined \/ Head(images) = thumbnail \/ Head(images) \in seen
    THEN DistinctOthers(Tail(images), thumbnail, seen)
    ELSE << Head(images) >> \o DistinctOthers(Tail(images), thumbnail, seen \cup { Head(images) })

\* C23: the additional images are the first two URLs of the whole image list that
\* differ from the thumbnail and from each other, so both are set whenever the
\* list holds two such URLs at any positions
C23_FirstTwoOfWholeList ==
    (probe.fn = "images" /\ probe.applied) =>
        LET others == DistinctOthers(probe.product.images, probe.product.thumbnail, { })
        IN probe.additionalImages = SubSeq(others, 1, Min(2, Len(others)))

\* the last of the results, in the order the queries were pushed, that has key k
LastWith(results, k) ==
    CHOOSE i \in 1..Len(results) :
        /\ HasKey(results[i], k)
        /\ \A j \in (i + 1)..Len(results) : ~HasKey(results[j], k)

\* C24: the lookup table has the keys of all results, and for a variant id that
\* two queries return it keeps the value of the query pushed later, whatever the
\* order in which the queries completed
C24_LastGroupWins ==
    (probe.fn = "merge" /\ probe.done) =>
        /\ Keys(probe.merged) = UNION { Keys(probe.results[i]) : i \in 1..Len(probe.results) }
        /\ \A k \in Keys(probe.merged) :
              Get(probe.merged, k) = Get(probe.results[LastWith(probe.results, k)], k)

\* C24 witness: both queries return vA1, the second completed first, and the
\* table holds the second query's value
C24_Witness ==
    /\ probe.fn = "merge" /\ probe.done
    /\ probe.settled = << 2, 1 >>
    /\ HasKey(probe.results[1], vA1) /\ Get(probe.results[1], vA1) = 1
    /\ HasKey(probe.results[2], vA1) /\ Get(probe.results[2], vA1) = 2
    /\ Get(probe.merged, vA1) = 2

\* the positions of the calls of one operation in the log
PositionsOf(op) == { i \in 1..Len(calls) : calls[i].op = op }

\* C25: within one build the region list and the product count are requested at
\* most once, no batch offset is fetched twice, no sales channel is queried twice
\* for one batch, the hook is called at most once per variant, and a build that
\* failed made no call after the failure
C25_NoRetry ==
    /\ Cardinality({ i \in PositionsOf("listRegions") : calls[i].by = "build" }) <= 1
    /\ Cardinality(PositionsOf("listAndCountProducts")) <= 1
    /\ \A i, j \in PositionsOf("graph") : calls[i].skip = calls[j].skip => i = j
    /\ \A i, j \in PositionsOf("getVariantAvailability") :
          (i < j /\ calls[i].sales_channel_id = calls[j].sales_channel_id)
             => \E k \in PositionsOf("graph") : i < k /\ k < j
    /\ \A i, j \in PositionsOf("itemTransform") : calls[i].variant = calls[j].variant => i = j
    /\ returned.status = "rejected" =>
          (pc \in { "returned", "responded" } /\ Len(calls) = failedAt)

\* C25 witness: the build failed on a rejected availability query of its second
\* batch, after two fetches and one call of the hook
C25_Witness ==
    /\ returned.status = "rejected"
    /\ Cardinality(PositionsOf("graph")) = 2
    /\ Cardinality(PositionsOf("itemTransform")) >= 1
    /\ \E i \in 1..Len(availabilityPromises) : availabilityPromises[i].state = "rejected"

\* C26: handleVariantOptions never fails: an option value without title or
\* without value is skipped and the option values after it are still handled
C26_OptionsTotal ==
    (probe.fn = "mapVariant" /\ probe.applied) =>
        /\ ~probe.variantOptions.threw
        /\ \A i \in 1..Len(probe.variant.options) :
              LET optionValue == probe.variant.options[i]
              IN (/\ Truthy(optionValue.title) /\ IsStr(optionValue.value)
                  /\ Truthy(optionValue.value) /\ ~IsDefaultValue(optionValue.value.s))
                 => HasKey(probe.variantOptions.obj,
                           OptionKey(optionValue.title.s, probe.a.mode, probe.a.GoogleMerchant))

PositivePage == IsNum(args.page) /\ args.page.n > 0

\* the fetches of every batch of the catalog
AllBatches(size) ==
    [k \in 1..CeilOf(Len(catalog), size) |-> [skip |-> (k - 1) * size, take |-> size]]

\* C29: a page that is absent, 0 or negative is no page: the batch range is the
\* whole plan and the build that returns has fetched every batch and mapped every
\* priced variant of the catalog; a positive page is a range of one batch, and
\* the build issues exactly one fetch, at skip (page - 1) * size, also when that
\* is beyond the last batch (it then returns no item)
C29_NonPositivePageIsNoPage ==
    plan # Undefined =>
        IF PositivePage
        THEN /\ plan.startBatch = args.page.n - 1 /\ plan.endBatch = plan.startBatch
             /\ Fulfilled =>
                   /\ FetchesSoFar = << [skip |-> (args.page.n - 1) * plan.effectiveBatchSize,
                                         take |-> plan.effectiveBatchSize] >>
                   /\ (args.page.n - 1) * plan.effectiveBatchSize >= Len(catalog)
                          => returned.items = << >>
        ELSE /\ plan.startBatch = 0 /\ plan.endBatch = plan.batches - 1
             /\ Fulfilled =>
                   /\ FetchesSoFar = AllBatches(plan.effectiveBatchSize)
                   /\ mappedFrom = VariantIdsInOrder(catalog)

\* C29 witness: a build with page -1 and batchSize 1 of three products returned
\* after the fetches at skip 0, 1 and 2
C29_Witness ==
    /\ Fulfilled /\ args # Undefined /\ args.page = Num(-1) /\ Len(catalog) = 3
    /\ Len(FetchesSoFar) = 3 /\ FetchesSoFar[3].skip = 2
    /\ Len(mappedFrom) >= 2

\* a build with a page beyond the last batch returned after one fetch
BeyondLastPage ==
    /\ Fulfilled /\ args # Undefined /\ args.page = Num(2) /\ plan # Undefined
    /\ plan.effectiveBatchSize = 50 /\ Len(catalog) = 3
    /\ FetchesSoFar = << [skip |-> 50, take |-> 50] >>

\* C28: in feed/products and feed/products/all an empty region list is answered
\* 404 "No regions found", and no catalog query is issued
C28_LegacyNoRegionsIs404 ==
    (entry \in { "products", "productsAll" } /\ regions = << >> /\ pc = "responded") =>
        /\ "message" \in DOMAIN response
        /\ response.status = 404
        /\ response.message = "No regions found"
        /\ CallsOf("graph") = << >>

\* the items of the batches i..last of a build that runs alone with arguments a
RECURSIVE SoloBatches(_, _, _, _, _)
SoloBatches(i, last, size, region, a) ==
    IF i > last THEN << >>
    ELSE LET batch == Page(catalog, i * size, size)
             queries == AvailabilityQueries(batch)
             map == MergeResults([q \in 1..Len(queries) |->
                                    [sales_channel_id |-> queries[q].k,
                                     variant_ids |-> queries[q].v]], << >>)
             ts == MapTasks(batch, map, region.currency_code, a)
         IN [t \in 1..Len(ts) |-> TaskItem(ts[t], a)]
            \o SoloBatches(i + 1, last, size, region, a)

\* what a build with arguments a returns when no other build runs
SoloItems(a) ==
    LET p == BatchPlan(Len(catalog), a)
    IN SoloBatches(p.startBatch, p.endBatch, p.effectiveBatchSize, SelectRegion(regions, a), a)

\* C27: two builds interleaved on one instance do not see each other: the
\* accumulator of each is at every moment a prefix of what the build returns when
\* run alone, its pricing context is the region its own arguments select, its
\* lookup table is that of its own batch, a build that returns returns exactly
\* its solo result, and the instance's options are never modified
C27_BuildsIsolated ==
    /\ builds.options = DefaultOptions
    /\ \A b \in Builds :
         LET l == builds.locals[b]
         IN /\ l.selectedRegion # Undefined =>
                  l.selectedRegion = SelectRegion(regions, l.args)
            /\ l.pc \in { "loop", "availability", "mapping" } =>
                  IsPrefix(builds.mappedVariants[b], SoloItems(l.args))
            /\ l.pc = "mapping" =>
                  l.availabilityMap = MergeResults(l.availabilityPromises, << >>)
            /\ l.returned.status = "fulfilled" => l.returned.items = SoloItems(l.args)

\* C27 witness: both builds are in the middle of their second batch at the same time,
\* priced in different regions and in different modes, each with the items of
\* its earlier batches accumulated
C27_Witness ==
    /\ builds.locals[1].pc = "mapping" /\ builds.locals[2].pc = "mapping"
    /\ builds.locals[1].selectedRegion = r1 /\ builds.locals[2].selectedRegion = r2
    /\ builds.locals[1].args.mode = "json" /\ builds.locals[2].args.mode = "xml"
    /\ builds.locals[1].batchIndex = 1 /\ builds.locals[2].batchIndex = 1
    /\ Len(builds.mappedVariants[1]) = 1 /\ Len(builds.mappedVariants[2]) = 2
    /\ builds.mappedVariants[1] # builds.mappedVariants[2]
    /\ builds.locals[1].availabilityMap # builds.locals[2].availabilityMap

====
